---- MODULE Spec2Model ----
(***************************************************************************)
(* Offline gallery (src/gallery/app.js): the persisted document, the       *)
(* credential functions (signup, login, admin bootstrap) and the content   *)
(* repository (galleries, posts, comments with soft delete, restore and    *)
(* purge).                                                                 *)
(*                                                                         *)
(* Conventions.  Strings the code inspects character by character          *)
(* (usernames, titles, colours) are tuples of one-character strings.       *)
(* JavaScript null / undefined is 0 for ids and timestamps (real ids and   *)
(* timestamps start at 1).  Plain objects used as maps are functions whose *)
(* DOMAIN is the set of own keys.  Random ids (safeId) are drawn from      *)
(* counters, so an id never repeats; a random salt is a value no stored    *)
(* user and no suspended call holds.                                       *)
(***************************************************************************)
EXTENDS Integers, Sequences, FiniteSets, TLC

VARIABLES
    state,       \* the in-memory document: users, usernameIndex, userData
    stored,      \* localStorage[STORAGE_KEY]: the persisted document
    remembered,  \* localStorage[REMEMBER_KEY]: a user id, or 0
    viewState,   \* viewState.userId: the session user, or 0
    now,         \* the clock nowISO() reads
    nextId,      \* the ids safeId hands out next, per kind
    boot,        \* the admin bootstrap: "pending" in its derivation, or "done"
    pending,     \* signup / login calls suspended in deriveHashB64
    last         \* what the last call reported to its caller

vars == <<state, stored, remembered, viewState, now, nextId, boot, pending, last>>

\* ------------------------------------------------------------------ bounds
MaxClock == 5
MaxUsers == 3
MaxGalleries == 2
MaxPosts == 2
MaxComments == 1
MaxPending == 1
MaxSettingsClock == 4

\* ------------------------------------------------------------ plain values
NoUser == 0
NoTime == 0
NoId == 0

EmptyMap == [x \in {} |-> 0]
Put(f, k, v) == [x \in DOMAIN f \cup {k} |-> IF x = k THEN v ELSE f[x]]
Remove(f, k) == [x \in DOMAIN f \ {k} |-> f[x]]

\* /\s/ on the characters the inputs use
Whitespace == {" "}

RECURSIVE TrimLeft(_)
TrimLeft(s) ==
    IF Len(s) > 0 /\ s[1] \in Whitespace THEN TrimLeft(Tail(s)) ELSE s

RECURSIVE TrimRight(_)
TrimRight(s) ==
    IF Len(s) > 0 /\ s[Len(s)] \in Whitespace
    THEN TrimRight(SubSeq(s, 1, Len(s) - 1))
    ELSE s

\* String.prototype.trim
Trim(s) == TrimRight(TrimLeft(s))

\* x.f || dflt for a string field: absent and "" are falsy
OrText(d, f, dflt) == IF f \in DOMAIN d /\ d[f] # <<>> THEN d[f] ELSE dflt
\* x.f ?? old: only absent falls through
Coalesce(d, f, old) == IF f \in DOMAIN d THEN d[f] ELSE old

HexDigits ==
    {"0", "1", "2", "3", "4", "5", "6", "7", "8", "9",
     "a", "b", "c", "d", "e", "f", "A", "B", "C", "D", "E", "F"}

ToUpper(c) ==
    CASE c = "a" -> "A" [] c = "b" -> "B" [] c = "c" -> "C"
      [] c = "d" -> "D" [] c = "e" -> "E" [] c = "f" -> "F"
      [] OTHER -> c

DefaultColor == <<"#", "6", "E", "E", "7", "F", "F">>
DefaultIcon == <<"I">>
DefaultGalleryTitle == <<"N", "G">>
DefaultPostTitle == <<"N", "P">>

normalizeHex(hex) ==
    LET h == Trim(hex)
        body == IF Len(h) > 0 /\ h[1] = "#" THEN Tail(h) ELSE h
    IN  IF Len(body) = 6 /\ \A i \in 1..6 : body[i] \in HexDigits
        THEN <<"#">> \o [i \in 1..6 |-> ToUpper(body[i])]
        ELSE DefaultColor

isValidUsername(u) ==
    /\ u # <<>>
    /\ ~(Len(u) < 2 \/ Len(u) > 20)
    /\ ~(\E i \in 1..Len(u) : u[i] \in Whitespace)

\* ------------------------------------------------------------ the document
EmptyDoc == [users |-> EmptyMap, usernameIndex |-> EmptyMap, userData |-> EmptyMap]

DefaultSettings == [theme |-> "dark", accent |-> DefaultColor, viewMode |-> "grid"]

DefaultPartition ==
    [settings |-> DefaultSettings, galleries |-> EmptyMap,
     posts |-> EmptyMap, comments |-> EmptyMap]

\* state.userData[userId] ||= {...}: creates the partition of ANY id it is given
ensureUserData(doc, userId) ==
    IF userId \in DOMAIN doc.userData
    THEN doc
    ELSE [doc EXCEPT !.userData = Put(@, userId, DefaultPartition)]

\* Variant: the role is never honoured
isAdminNever(doc, session) == FALSE

isAdmin(doc, session) ==
    session \in DOMAIN doc.users /\ doc.users[session].role = "admin"

\* Variant: any signed-in user may manage any partition
canManageSignedIn(doc, session, userId) == session # NoUser

canManage(doc, session, userId) ==
    isAdmin(doc, session) \/ userId = session

\* What a call hands back: the document it leaves in memory, its return value
\* (truthy or not), the toast it raised and whether it called saveState().
Res(doc, ret, notice, saved) ==
    [doc |-> doc, ret |-> ret, notice |-> notice, saved |-> saved]

NoNotice == "none"

\* ------------------------------------------------------- cross-user lookups
Galleries(doc, u) == doc.userData[u].galleries
Posts(doc, u) == doc.userData[u].posts
Comments(doc, u) == doc.userData[u].comments

\* The partitions the scan visits return the first hit in key order; ids are
\* unique per kind, so at most one partition holds a given id.
GalleryHolders(doc, gid) == {o \in DOMAIN doc.userData : gid \in DOMAIN Galleries(doc, o)}
PostHolders(doc, pid) == {o \in DOMAIN doc.userData : pid \in DOMAIN Posts(doc, o)}

\* Variant: with a hint, only the hinted partition is searched
resolveGalleryCtxHintOnly(doc, gid, ownerHint) ==
    IF gid = NoId THEN [found |-> FALSE, ownerId |-> NoUser, doc |-> doc]
    ELSE LET d1 == IF ownerHint # NoUser THEN ensureUserData(doc, ownerHint) ELSE doc
         IN  IF ownerHint # NoUser
             THEN IF gid \in DOMAIN Galleries(d1, ownerHint)
                  THEN [found |-> TRUE, ownerId |-> ownerHint, doc |-> d1]
                  ELSE [found |-> FALSE, ownerId |-> NoUser, doc |-> d1]
             ELSE IF GalleryHolders(d1, gid) # {}
                  THEN [found |-> TRUE,
                        ownerId |-> CHOOSE o \in GalleryHolders(d1, gid) :
                                        \A o2 \in GalleryHolders(d1, gid) : o <= o2,
                        doc |-> d1]
                  ELSE [found |-> FALSE, ownerId |-> NoUser, doc |-> d1]

\* resolveGalleryCtx: [found, ownerId, doc]; doc carries the partition the hint
\* may have created.
resolveGalleryCtx(doc, gid, ownerHint) ==
    IF gid = NoId THEN [found |-> FALSE, ownerId |-> NoUser, doc |-> doc]
    ELSE LET d1 == IF ownerHint # NoUser THEN ensureUserData(doc, ownerHint) ELSE doc
         IN  IF ownerHint # NoUser /\ gid \in DOMAIN Galleries(d1, ownerHint)
             THEN [found |-> TRUE, ownerId |-> ownerHint, doc |-> d1]
             ELSE IF GalleryHolders(d1, gid) # {}
                  THEN [found |-> TRUE,
                        ownerId |-> CHOOSE o \in GalleryHolders(d1, gid) :
                                        \A o2 \in GalleryHolders(d1, gid) : o <= o2,
                        doc |-> d1]
                  ELSE [found |-> FALSE, ownerId |-> NoUser, doc |-> d1]

resolvePostCtx(doc, pid, authorHint) ==
    IF pid = NoId THEN [found |-> FALSE, ownerId |-> NoUser, doc |-> doc]
    ELSE LET d1 == IF authorHint # NoUser THEN ensureUserData(doc, authorHint) ELSE doc
         IN  IF authorHint # NoUser /\ pid \in DOMAIN Posts(d1, authorHint)
             THEN [found |-> TRUE, ownerId |-> authorHint, doc |-> d1]
             ELSE IF PostHolders(d1, pid) # {}
                  THEN [found |-> TRUE,
                        ownerId |-> CHOOSE o \in PostHolders(d1, pid) :
                                        \A o2 \in PostHolders(d1, pid) : o <= o2,
                        doc |-> d1]
                  ELSE [found |-> FALSE, ownerId |-> NoUser, doc |-> d1]

\* Variant: a post without galleryOwnerId belongs to no gallery
PostGalleryOwnerStrict(p, authorId) == p.galleryOwnerId

\* p.galleryOwnerId || authorId
PostGalleryOwner(p, authorId) ==
    IF p.galleryOwnerId # NoUser THEN p.galleryOwnerId ELSE authorId

\* Variant: only the gallery owner's own posts are listed
listPostsInGalleryOwnOnly(doc, galleryOwnerId, galleryId, includeDeleted) ==
    {ap \in {<<galleryOwnerId, p>> : p \in DOMAIN Posts(doc, galleryOwnerId)} :
        LET p == Posts(doc, ap[1])[ap[2]]
        IN  /\ PostGalleryOwner(p, ap[1]) = galleryOwnerId
            /\ p.galleryId = galleryId
            /\ (includeDeleted \/ p.deletedAt = NoTime)}

\* listPostsInGallery: the <<author, post id>> pairs it returns
listPostsInGallery(doc, galleryOwnerId, galleryId, includeDeleted) ==
    {ap \in UNION {{<<a, p>> : p \in DOMAIN Posts(doc, a)} : a \in DOMAIN doc.userData} :
        LET p == Posts(doc, ap[1])[ap[2]]
        IN  /\ PostGalleryOwner(p, ap[1]) = galleryOwnerId
            /\ p.galleryId = galleryId
            /\ (includeDeleted \/ p.deletedAt = NoTime)}

\* x.p.updatedAt || x.p.createdAt || "": the instant a post was last touched
PostTouched(p) ==
    IF p.updatedAt # NoTime THEN p.updatedAt
    ELSE IF p.createdAt # NoTime THEN p.createdAt ELSE NoTime

\* alive.reduce((acc, x) => acc > t ? acc : t, acc) over the listed posts
RECURSIVE ReduceLatest(_, _, _)
ReduceLatest(doc, listed, acc) ==
    IF listed = {} THEN acc
    ELSE LET x == CHOOSE ap \in listed : TRUE
             t == PostTouched(Posts(doc, x[1])[x[2]])
         IN  ReduceLatest(doc, listed \ {x}, IF acc > t THEN acc ELSE t)

\* Variant: the latest activity is taken over the trashed posts as well
computeGalleryMetaLatestOfAll(doc, galleryOwnerId, galleryId) ==
    LET posts == listPostsInGallery(doc, galleryOwnerId, galleryId, TRUE)
        alive == {x \in posts : Posts(doc, x[1])[x[2]].deletedAt = NoTime}
        trashed == {x \in posts : Posts(doc, x[1])[x[2]].deletedAt # NoTime}
    IN  [postCount |-> Cardinality(alive),
         trashedCount |-> Cardinality(trashed),
         latestAt |-> ReduceLatest(doc, posts, NoTime)]

\* computeGalleryMeta; latest || null: the empty string and null are both NoTime
computeGalleryMeta(doc, galleryOwnerId, galleryId) ==
    LET posts == listPostsInGallery(doc, galleryOwnerId, galleryId, TRUE)
        alive == {x \in posts : Posts(doc, x[1])[x[2]].deletedAt = NoTime}
        trashed == {x \in posts : Posts(doc, x[1])[x[2]].deletedAt # NoTime}
    IN  [postCount |-> Cardinality(alive),
         trashedCount |-> Cardinality(trashed),
         latestAt |-> ReduceLatest(doc, alive, NoTime)]

\* --------------------------------------------------------- record updates
SetGallery(doc, o, gid, g) == [doc EXCEPT !.userData[o].galleries = Put(@, gid, g)]
SetPost(doc, a, pid, p) == [doc EXCEPT !.userData[a].posts = Put(@, pid, p)]
SetComment(doc, a, cid, c) == [doc EXCEPT !.userData[a].comments = Put(@, cid, c)]

\* ------------------------------------------------------------ CRUD: gallery
createGallery(doc, session, ownerId, data, gid, t) ==
    IF ~canManage(doc, session, ownerId)
    THEN Res(doc, FALSE, "denied:createGallery", FALSE)
    ELSE LET d1 == ensureUserData(doc, ownerId)
             g == [id |-> gid,
                   title |-> Trim(OrText(data, "title", DefaultGalleryTitle)),
                   desc |-> Trim(OrText(data, "desc", <<>>)),
                   icon |-> OrText(data, "icon", DefaultIcon),
                   color |-> normalizeHex(OrText(data, "color", DefaultColor)),
                   pinned |-> ("pinned" \in DOMAIN data /\ data.pinned),
                   createdAt |-> t, updatedAt |-> t, deletedAt |-> NoTime]
         IN  Res(SetGallery(d1, ownerId, gid, g), TRUE, NoNotice, TRUE)

\* Variant: a refused caller gets no notice
updateGallerySilentDenial(doc, session, ownerId, gid, patch, t) ==
    IF ~canManage(doc, session, ownerId)
    THEN Res(doc, FALSE, NoNotice, FALSE)
    ELSE LET d1 == ensureUserData(doc, ownerId)
         IN  IF gid \notin DOMAIN Galleries(d1, ownerId)
                \/ Galleries(d1, ownerId)[gid].deletedAt # NoTime
             THEN Res(d1, FALSE, NoNotice, FALSE)
             ELSE LET g == Galleries(d1, ownerId)[gid]
                      g2 == [g EXCEPT
                               !.title = Trim(Coalesce(patch, "title", g.title)),
                               !.desc = Trim(Coalesce(patch, "desc", g.desc)),
                               !.icon = Coalesce(patch, "icon", g.icon),
                               !.color = normalizeHex(Coalesce(patch, "color", g.color)),
                               !.pinned = Coalesce(patch, "pinned", g.pinned),
                               !.updatedAt = t]
                  IN  Res(SetGallery(d1, ownerId, gid, g2), TRUE, NoNotice, TRUE)

\* Variant: a field the patch leaves out is reset as createGallery would set it
updateGalleryDefaultsAbsent(doc, session, ownerId, gid, patch, t) ==
    IF ~canManage(doc, session, ownerId)
    THEN Res(doc, FALSE, "denied:updateGallery", FALSE)
    ELSE LET d1 == ensureUserData(doc, ownerId)
         IN  IF gid \notin DOMAIN Galleries(d1, ownerId)
                \/ Galleries(d1, ownerId)[gid].deletedAt # NoTime
             THEN Res(d1, FALSE, NoNotice, FALSE)
             ELSE LET g == Galleries(d1, ownerId)[gid]
                      g2 == [g EXCEPT
                               !.title = Trim(OrText(patch, "title", DefaultGalleryTitle)),
                               !.desc = Trim(OrText(patch, "desc", <<>>)),
                               !.icon = OrText(patch, "icon", DefaultIcon),
                               !.color = normalizeHex(OrText(patch, "color", DefaultColor)),
                               !.pinned = ("pinned" \in DOMAIN patch /\ patch.pinned),
                               !.updatedAt = t]
                  IN  Res(SetGallery(d1, ownerId, gid, g2), TRUE, NoNotice, TRUE)

updateGallery(doc, session, ownerId, gid, patch, t) ==
    IF ~canManage(doc, session, ownerId)
    THEN Res(doc, FALSE, "denied:updateGallery", FALSE)
    ELSE LET d1 == ensureUserData(doc, ownerId)
         IN  IF gid \notin DOMAIN Galleries(d1, ownerId)
                \/ Galleries(d1, ownerId)[gid].deletedAt # NoTime
             THEN Res(d1, FALSE, NoNotice, FALSE)
             ELSE LET g == Galleries(d1, ownerId)[gid]
                      g2 == [g EXCEPT
                               !.title = Trim(Coalesce(patch, "title", g.title)),
                               !.desc = Trim(Coalesce(patch, "desc", g.desc)),
                               !.icon = Coalesce(patch, "icon", g.icon),
                               !.color = normalizeHex(Coalesce(patch, "color", g.color)),
                               !.pinned = Coalesce(patch, "pinned", g.pinned),
                               !.updatedAt = t]
                  IN  Res(SetGallery(d1, ownerId, gid, g2), TRUE, NoNotice, TRUE)

\* Variant: the cascade stamps every post, tombstoned or not
DeleteCascadeRestamp(p, t) ==
    [p EXCEPT !.deletedAt = t, !.updatedAt = t, !.deletedByGallery = TRUE]

\* The cascade of deleteGallerySoft over one post
DeleteCascade(p, t) ==
    IF p.deletedAt = NoTime
    THEN [p EXCEPT !.deletedAt = t, !.updatedAt = t, !.deletedByGallery = TRUE]
    ELSE p

\* Variant: the cascade revives every tombstoned post, whatever its flag
RestoreCascadeAll(p, t) ==
    IF p.deletedAt # NoTime
    THEN [p EXCEPT !.deletedAt = NoTime, !.deletedByGallery = FALSE, !.updatedAt = t]
    ELSE p

\* Variant: the cascade clears the tombstone but leaves the flag set
RestoreCascadeKeepFlag(p, t) ==
    IF p.deletedAt # NoTime /\ p.deletedByGallery
    THEN [p EXCEPT !.deletedAt = NoTime, !.updatedAt = t]
    ELSE p

\* The cascade of restoreGallery over one post
RestoreCascade(p, t) ==
    IF p.deletedAt # NoTime /\ p.deletedByGallery
    THEN [p EXCEPT !.deletedAt = NoTime, !.deletedByGallery = FALSE, !.updatedAt = t]
    ELSE p

\* for (... of posts) of deleteGallerySoft: the cascade over the listed posts
DeleteCascadeOver(doc, hits, t) ==
    [doc EXCEPT !.userData =
        [a \in DOMAIN doc.userData |->
            [doc.userData[a] EXCEPT !.posts =
                [p \in DOMAIN doc.userData[a].posts |->
                    IF <<a, p>> \in hits
                    THEN DeleteCascade(doc.userData[a].posts[p], t)
                    ELSE doc.userData[a].posts[p]]]]]

\* for (... of posts) of restoreGallery: the cascade over the listed posts
RestoreCascadeOver(doc, hits, t) ==
    [doc EXCEPT !.userData =
        [a \in DOMAIN doc.userData |->
            [doc.userData[a] EXCEPT !.posts =
                [p \in DOMAIN doc.userData[a].posts |->
                    IF <<a, p>> \in hits
                    THEN RestoreCascade(doc.userData[a].posts[p], t)
                    ELSE doc.userData[a].posts[p]]]]]

\* Variant: a tombstoned gallery can be deleted again
deleteGallerySoftAgain(doc, session, ownerId, gid, t) ==
    IF ~canManage(doc, session, ownerId)
    THEN Res(doc, FALSE, "denied:deleteGallery", FALSE)
    ELSE LET d1 == ensureUserData(doc, ownerId)
         IN  IF gid \notin DOMAIN Galleries(d1, ownerId)
             THEN Res(d1, FALSE, NoNotice, FALSE)
             ELSE LET g == Galleries(d1, ownerId)[gid]
                      d2 == SetGallery(d1, ownerId, gid,
                                [g EXCEPT !.deletedAt = t, !.updatedAt = t])
                      hits == listPostsInGallery(d2, ownerId, gid, TRUE)
                  IN  Res(DeleteCascadeOver(d2, hits, t), TRUE, NoNotice, TRUE)

deleteGallerySoft(doc, session, ownerId, gid, t) ==
    IF ~canManage(doc, session, ownerId)
    THEN Res(doc, FALSE, "denied:deleteGallery", FALSE)
    ELSE LET d1 == ensureUserData(doc, ownerId)
         IN  IF gid \notin DOMAIN Galleries(d1, ownerId)
                \/ Galleries(d1, ownerId)[gid].deletedAt # NoTime
             THEN Res(d1, FALSE, NoNotice, FALSE)
             ELSE LET g == Galleries(d1, ownerId)[gid]
                      d2 == SetGallery(d1, ownerId, gid,
                                [g EXCEPT !.deletedAt = t, !.updatedAt = t])
                      hits == listPostsInGallery(d2, ownerId, gid, TRUE)
                  IN  Res(DeleteCascadeOver(d2, hits, t), TRUE, NoNotice, TRUE)

restoreGallery(doc, session, ownerId, gid, t) ==
    IF ~canManage(doc, session, ownerId)
    THEN Res(doc, FALSE, "denied:restoreGallery", FALSE)
    ELSE LET d1 == ensureUserData(doc, ownerId)
         IN  IF gid \notin DOMAIN Galleries(d1, ownerId)
                \/ Galleries(d1, ownerId)[gid].deletedAt = NoTime
             THEN Res(d1, FALSE, NoNotice, FALSE)
             ELSE LET g == Galleries(d1, ownerId)[gid]
                      d2 == SetGallery(d1, ownerId, gid,
                                [g EXCEPT !.deletedAt = NoTime, !.updatedAt = t])
                      hits == listPostsInGallery(d2, ownerId, gid, TRUE)
                  IN  Res(RestoreCascadeOver(d2, hits, t), TRUE, NoNotice, TRUE)

\* Variant: comments are left behind
DropCommentsNone(doc, postIds) == doc

\* Variant: only the comments the posts' own authors wrote are removed
DropCommentsAuthorOnly(doc, postIds) ==
    [doc EXCEPT !.userData =
        [a \in DOMAIN doc.userData |->
            [doc.userData[a] EXCEPT !.comments =
                [c \in {x \in DOMAIN doc.userData[a].comments :
                            \/ doc.userData[a].comments[x].postId \notin postIds
                            \/ doc.userData[a].comments[x].postId \notin
                                   DOMAIN doc.userData[a].posts}
                    |-> doc.userData[a].comments[c]]]]]

\* delete cud.comments[cid] for every comment whose postId is in postIds
DropComments(doc, postIds) ==
    [doc EXCEPT !.userData =
        [a \in DOMAIN doc.userData |->
            [doc.userData[a] EXCEPT !.comments =
                [c \in {x \in DOMAIN doc.userData[a].comments :
                            doc.userData[a].comments[x].postId \notin postIds}
                    |-> doc.userData[a].comments[c]]]]]

\* delete aud.posts[p.id] for every listed post
DropPosts(doc, hits) ==
    [doc EXCEPT !.userData =
        [a \in DOMAIN doc.userData |->
            [doc.userData[a] EXCEPT !.posts =
                [p \in {x \in DOMAIN doc.userData[a].posts : <<a, x>> \notin hits}
                    |-> doc.userData[a].posts[p]]]]]

purgeGallery(doc, session, ownerId, gid) ==
    IF ~canManage(doc, session, ownerId)
    THEN Res(doc, FALSE, "denied:purgeGallery", FALSE)
    ELSE LET d1 == ensureUserData(doc, ownerId)
         IN  IF gid \notin DOMAIN Galleries(d1, ownerId)
             THEN Res(d1, FALSE, NoNotice, FALSE)
             ELSE LET hits == listPostsInGallery(d1, ownerId, gid, TRUE)
                      postIds == {Posts(d1, ap[1])[ap[2]].id : ap \in hits}
                      d2 == DropComments(d1, postIds)
                      d3 == DropPosts(d2, hits)
                      d4 == [d3 EXCEPT !.userData[ownerId].galleries = Remove(@, gid)]
                  IN  Res(d4, TRUE, NoNotice, TRUE)

\* --------------------------------------------------------------- CRUD: post
\* Variant: the post keeps the owner hint it was given
createPostStoresHint(doc, session, authorId, data, pid, t) ==
    IF ~canManage(doc, session, authorId)
    THEN Res(doc, FALSE, "denied:createPost", FALSE)
    ELSE LET gctx == resolveGalleryCtx(doc, data.galleryId, data.galleryOwnerId)
         IN  IF ~gctx.found
                \/ Galleries(gctx.doc, gctx.ownerId)[data.galleryId].deletedAt # NoTime
             THEN Res(gctx.doc, FALSE, "invalidGallery", FALSE)
             ELSE LET d1 == ensureUserData(gctx.doc, authorId)
                      p == [id |-> pid,
                            galleryOwnerId |-> data.galleryOwnerId,
                            galleryId |-> Galleries(gctx.doc, gctx.ownerId)[data.galleryId].id,
                            title |-> Trim(OrText(data, "title", DefaultPostTitle)),
                            content |-> Trim(OrText(data, "content", <<>>)),
                            createdAt |-> t, updatedAt |-> t, deletedAt |-> NoTime,
                            deletedByGallery |-> FALSE]
                  IN  Res(SetPost(d1, authorId, pid, p), TRUE, NoNotice, TRUE)

\* Variant: a tombstoned gallery still takes posts
createPostInTrashedGallery(doc, session, authorId, data, pid, t) ==
    IF ~canManage(doc, session, authorId)
    THEN Res(doc, FALSE, "denied:createPost", FALSE)
    ELSE LET gctx == resolveGalleryCtx(doc, data.galleryId, data.galleryOwnerId)
         IN  IF ~gctx.found
             THEN Res(gctx.doc, FALSE, "invalidGallery", FALSE)
             ELSE LET d1 == ensureUserData(gctx.doc, authorId)
                      p == [id |-> pid,
                            galleryOwnerId |-> gctx.ownerId,
                            galleryId |-> Galleries(gctx.doc, gctx.ownerId)[data.galleryId].id,
                            title |-> Trim(OrText(data, "title", DefaultPostTitle)),
                            content |-> Trim(OrText(data, "content", <<>>)),
                            createdAt |-> t, updatedAt |-> t, deletedAt |-> NoTime,
                            deletedByGallery |-> FALSE]
                  IN  Res(SetPost(d1, authorId, pid, p), TRUE, NoNotice, TRUE)

createPost(doc, session, authorId, data, pid, t) ==
    IF ~canManage(doc, session, authorId)
    THEN Res(doc, FALSE, "denied:createPost", FALSE)
    ELSE LET gctx == resolveGalleryCtx(doc, data.galleryId, data.galleryOwnerId)
         IN  IF ~gctx.found
                \/ Galleries(gctx.doc, gctx.ownerId)[data.galleryId].deletedAt # NoTime
             THEN Res(gctx.doc, FALSE, "invalidGallery", FALSE)
             ELSE LET d1 == ensureUserData(gctx.doc, authorId)
                      p == [id |-> pid,
                            galleryOwnerId |-> gctx.ownerId,
                            galleryId |-> Galleries(gctx.doc, gctx.ownerId)[data.galleryId].id,
                            title |-> Trim(OrText(data, "title", DefaultPostTitle)),
                            content |-> Trim(OrText(data, "content", <<>>)),
                            createdAt |-> t, updatedAt |-> t, deletedAt |-> NoTime,
                            deletedByGallery |-> FALSE]
                  IN  Res(SetPost(d1, authorId, pid, p), TRUE, NoNotice, TRUE)

\* Variant: a tombstoned post can still be edited
updatePostIgnoresTombstone(doc, session, authorId, pid, patch, t) ==
    IF ~canManage(doc, session, authorId)
    THEN Res(doc, FALSE, "denied:updatePost", FALSE)
    ELSE LET d1 == ensureUserData(doc, authorId)
         IN  IF pid \notin DOMAIN Posts(d1, authorId)
             THEN Res(d1, FALSE, NoNotice, FALSE)
             ELSE LET p == Posts(d1, authorId)[pid]
                      p2 == [p EXCEPT
                               !.title = Trim(Coalesce(patch, "title", p.title)),
                               !.content = Trim(Coalesce(patch, "content", p.content)),
                               !.updatedAt = t]
                  IN  Res(SetPost(d1, authorId, pid, p2), TRUE, NoNotice, TRUE)

updatePost(doc, session, authorId, pid, patch, t) ==
    IF ~canManage(doc, session, authorId)
    THEN Res(doc, FALSE, "denied:updatePost", FALSE)
    ELSE LET d1 == ensureUserData(doc, authorId)
         IN  IF pid \notin DOMAIN Posts(d1, authorId)
                \/ Posts(d1, authorId)[pid].deletedAt # NoTime
             THEN Res(d1, FALSE, NoNotice, FALSE)
             ELSE LET p == Posts(d1, authorId)[pid]
                      p2 == [p EXCEPT
                               !.title = Trim(Coalesce(patch, "title", p.title)),
                               !.content = Trim(Coalesce(patch, "content", p.content)),
                               !.updatedAt = t]
                  IN  Res(SetPost(d1, authorId, pid, p2), TRUE, NoNotice, TRUE)

\* Variant: a direct deletion marks the post as if its gallery had been deleted
deletePostSoftFlagged(doc, session, authorId, pid, t) ==
    IF ~canManage(doc, session, authorId)
    THEN Res(doc, FALSE, "denied:deletePost", FALSE)
    ELSE LET d1 == ensureUserData(doc, authorId)
         IN  IF pid \notin DOMAIN Posts(d1, authorId)
                \/ Posts(d1, authorId)[pid].deletedAt # NoTime
             THEN Res(d1, FALSE, NoNotice, FALSE)
             ELSE LET p == Posts(d1, authorId)[pid]
                      p2 == [p EXCEPT !.deletedAt = t, !.deletedByGallery = TRUE,
                                      !.updatedAt = t]
                  IN  Res(SetPost(d1, authorId, pid, p2), TRUE, NoNotice, TRUE)

\* Variant: a tombstoned post can be deleted again
deletePostSoftAgain(doc, session, authorId, pid, t) ==
    IF ~canManage(doc, session, authorId)
    THEN Res(doc, FALSE, "denied:deletePost", FALSE)
    ELSE LET d1 == ensureUserData(doc, authorId)
         IN  IF pid \notin DOMAIN Posts(d1, authorId)
             THEN Res(d1, FALSE, NoNotice, FALSE)
             ELSE LET p == Posts(d1, authorId)[pid]
                      p2 == [p EXCEPT !.deletedAt = t, !.deletedByGallery = FALSE,
                                      !.updatedAt = t]
                  IN  Res(SetPost(d1, authorId, pid, p2), TRUE, NoNotice, TRUE)

deletePostSoft(doc, session, authorId, pid, t) ==
    IF ~canManage(doc, session, authorId)
    THEN Res(doc, FALSE, "denied:deletePost", FALSE)
    ELSE LET d1 == ensureUserData(doc, authorId)
         IN  IF pid \notin DOMAIN Posts(d1, authorId)
                \/ Posts(d1, authorId)[pid].deletedAt # NoTime
             THEN Res(d1, FALSE, NoNotice, FALSE)
             ELSE LET p == Posts(d1, authorId)[pid]
                      p2 == [p EXCEPT !.deletedAt = t, !.deletedByGallery = FALSE,
                                      !.updatedAt = t]
                  IN  Res(SetPost(d1, authorId, pid, p2), TRUE, NoNotice, TRUE)

\* Variant: the gallery is not consulted
restorePostUnchecked(doc, session, authorId, pid, t) ==
    IF ~canManage(doc, session, authorId)
    THEN Res(doc, FALSE, "denied:restorePost", FALSE)
    ELSE LET d1 == ensureUserData(doc, authorId)
         IN  IF pid \notin DOMAIN Posts(d1, authorId)
                \/ Posts(d1, authorId)[pid].deletedAt = NoTime
             THEN Res(d1, FALSE, NoNotice, FALSE)
             ELSE LET p == Posts(d1, authorId)[pid]
                      p2 == [p EXCEPT !.deletedAt = NoTime,
                                      !.deletedByGallery = FALSE, !.updatedAt = t]
                  IN  Res(SetPost(d1, authorId, pid, p2), TRUE, NoNotice, TRUE)

restorePost(doc, session, authorId, pid, t) ==
    IF ~canManage(doc, session, authorId)
    THEN Res(doc, FALSE, "denied:restorePost", FALSE)
    ELSE LET d1 == ensureUserData(doc, authorId)
         IN  IF pid \notin DOMAIN Posts(d1, authorId)
                \/ Posts(d1, authorId)[pid].deletedAt = NoTime
             THEN Res(d1, FALSE, NoNotice, FALSE)
             ELSE LET p == Posts(d1, authorId)[pid]
                      gctx == resolveGalleryCtx(d1, p.galleryId, p.galleryOwnerId)
                  IN  IF ~gctx.found
                         \/ Galleries(gctx.doc, gctx.ownerId)[p.galleryId].deletedAt # NoTime
                      THEN Res(gctx.doc, FALSE, "galleryDeleted", FALSE)
                      ELSE LET p2 == [p EXCEPT !.deletedAt = NoTime,
                                               !.deletedByGallery = FALSE,
                                               !.updatedAt = t]
                           IN  Res(SetPost(gctx.doc, authorId, pid, p2), TRUE, NoNotice, TRUE)

\* Variant: the post is kept as a tombstone
purgePostKeepsTombstone(doc, session, authorId, pid) ==
    IF ~canManage(doc, session, authorId)
    THEN Res(doc, FALSE, "denied:purgePost", FALSE)
    ELSE LET d1 == ensureUserData(doc, authorId)
         IN  IF pid \notin DOMAIN Posts(d1, authorId)
             THEN Res(d1, FALSE, NoNotice, FALSE)
             ELSE LET d2 == DropComments(d1, {pid})
                      d3 == [d2 EXCEPT !.userData[authorId].posts[pid].deletedAt = 1]
                  IN  Res(d3, TRUE, NoNotice, TRUE)

purgePost(doc, session, authorId, pid) ==
    IF ~canManage(doc, session, authorId)
    THEN Res(doc, FALSE, "denied:purgePost", FALSE)
    ELSE LET d1 == ensureUserData(doc, authorId)
         IN  IF pid \notin DOMAIN Posts(d1, authorId)
             THEN Res(d1, FALSE, NoNotice, FALSE)
             ELSE LET d2 == DropComments(d1, {pid})
                      d3 == [d2 EXCEPT !.userData[authorId].posts = Remove(@, pid)]
                  IN  Res(d3, TRUE, NoNotice, TRUE)

\* ------------------------------------------------------------ CRUD: comment
\* Variant: a tombstoned post still takes comments
createCommentOnTombstone(doc, session, authorId, postId, text, cid, t) ==
    IF ~canManage(doc, session, authorId)
    THEN Res(doc, FALSE, "denied:createComment", FALSE)
    ELSE LET pctx == resolvePostCtx(doc, postId, NoUser)
         IN  IF ~pctx.found
             THEN Res(pctx.doc, FALSE, "invalidPost", FALSE)
             ELSE LET d1 == ensureUserData(pctx.doc, authorId)
                      c == [id |-> cid, postId |-> postId, text |-> Trim(text),
                            createdAt |-> t, updatedAt |-> t, deletedAt |-> NoTime]
                  IN  Res(SetComment(d1, authorId, cid, c), TRUE, NoNotice, TRUE)

createComment(doc, session, authorId, postId, text, cid, t) ==
    IF ~canManage(doc, session, authorId)
    THEN Res(doc, FALSE, "denied:createComment", FALSE)
    ELSE LET pctx == resolvePostCtx(doc, postId, NoUser)
         IN  IF ~pctx.found \/ Posts(pctx.doc, pctx.ownerId)[postId].deletedAt # NoTime
             THEN Res(pctx.doc, FALSE, "invalidPost", FALSE)
             ELSE LET d1 == ensureUserData(pctx.doc, authorId)
                      c == [id |-> cid, postId |-> postId, text |-> Trim(text),
                            createdAt |-> t, updatedAt |-> t, deletedAt |-> NoTime]
                  IN  Res(SetComment(d1, authorId, cid, c), TRUE, NoNotice, TRUE)

updateComment(doc, session, authorId, cid, patch, t) ==
    IF ~canManage(doc, session, authorId)
    THEN Res(doc, FALSE, "denied:updateComment", FALSE)
    ELSE LET d1 == ensureUserData(doc, authorId)
         IN  IF cid \notin DOMAIN Comments(d1, authorId)
                \/ Comments(d1, authorId)[cid].deletedAt # NoTime
             THEN Res(d1, FALSE, NoNotice, FALSE)
             ELSE LET c == Comments(d1, authorId)[cid]
                      c2 == [c EXCEPT !.text = Trim(Coalesce(patch, "text", c.text)),
                                      !.updatedAt = t]
                  IN  Res(SetComment(d1, authorId, cid, c2), TRUE, NoNotice, TRUE)

deleteCommentSoft(doc, session, authorId, cid, t) ==
    IF ~canManage(doc, session, authorId)
    THEN Res(doc, FALSE, "denied:deleteComment", FALSE)
    ELSE LET d1 == ensureUserData(doc, authorId)
         IN  IF cid \notin DOMAIN Comments(d1, authorId)
                \/ Comments(d1, authorId)[cid].deletedAt # NoTime
             THEN Res(d1, FALSE, NoNotice, FALSE)
             ELSE LET c == Comments(d1, authorId)[cid]
                  IN  Res(SetComment(d1, authorId, cid,
                              [c EXCEPT !.deletedAt = t, !.updatedAt = t]),
                          TRUE, NoNotice, TRUE)

\* ------------------------------------------------------------- credentials
\* ---------------------------------------------------------------- settings
\* Number.prototype.toString(16).padStart(2, "0"), upper-cased by rgbToHex
HexDigit(n) ==
    CASE n < 10 -> <<"0", "1", "2", "3", "4", "5", "6", "7", "8", "9">>[n + 1]
      [] OTHER  -> <<"A", "B", "C", "D", "E", "F">>[n - 9]
To2(x) == <<HexDigit(x \div 16), HexDigit(x % 16)>>

rgbToHex(r, g, b) == <<"#">> \o To2(r) \o To2(g) \o To2(b)

\* setRgbUi(110, 231, 255) of the reset button
ResetRgb == <<110, 231, 255>>

\* Variant: the theme is written to every partition
setThemeEveryone(doc, session, theme) ==
    IF session = NoUser
    THEN Res(doc, FALSE, NoNotice, FALSE)
    ELSE LET d1 == ensureUserData(doc, session)
         IN  Res([d1 EXCEPT !.userData =
                     [u \in DOMAIN d1.userData |->
                         [d1.userData[u] EXCEPT !.settings.theme = theme]]],
                 TRUE, "theme", TRUE)

\* btnThemeDark / btnThemeLight
setTheme(doc, session, theme) ==
    IF session = NoUser
    THEN Res(doc, FALSE, NoNotice, FALSE)
    ELSE LET d1 == ensureUserData(doc, session)
         IN  Res([d1 EXCEPT !.userData[session].settings.theme = theme],
                 TRUE, "theme", TRUE)

\* btnAccentApply (rgb: what the sliders hold) / btnAccentReset (rgb = ResetRgb)
setAccent(doc, session, rgb) ==
    IF session = NoUser
    THEN Res(doc, FALSE, NoNotice, FALSE)
    ELSE LET d1 == ensureUserData(doc, session)
             hex == rgbToHex(rgb[1], rgb[2], rgb[3])
         IN  Res([d1 EXCEPT !.userData[session].settings.accent = hex],
                 TRUE, "accent", TRUE)

\* btnViewGrid / btnViewList
setViewMode(doc, session, mode) ==
    IF session = NoUser
    THEN Res(doc, FALSE, NoNotice, FALSE)
    ELSE LET d1 == ensureUserData(doc, session)
         IN  Res([d1 EXCEPT !.userData[session].settings.viewMode = mode],
                 TRUE, NoNotice, TRUE)

\* PBKDF2-SHA-256 over (password, salt): distinct inputs give distinct hashes
deriveHashB64(password, saltBytes) == <<"h", password, saltBytes>>

bytesToB64(bytes) == <<"b64", bytes>>
b64ToBytes(b64) == b64[2]

ADMIN_NAME == <<"a", "d", "m", "i", "n">>
ADMIN_PW == "qwer0987@"
DEMO_NAME == <<"d", "e", "m", "o">>

\* Names every plain object inherits from Object.prototype: obj["constructor"]
\* is a function (truthy) although the object has no such own key.
ObjectPrototypeKeys == {<<"c", "o", "n", "s", "t", "r", "u", "c", "t", "o", "r">>}
Inherited == -1

\* state.usernameIndex?.[username]: an id, 0 (undefined), or an inherited value
usernameIndexGet(doc, username) ==
    IF username \in DOMAIN doc.usernameIndex THEN doc.usernameIndex[username]
    ELSE IF username \in ObjectPrototypeKeys THEN Inherited
    ELSE NoUser

NewUser(userId, username, salt, hashB64, t, role) ==
    [userId |-> userId, username |-> username, saltB64 |-> bytesToB64(salt),
     hashB64 |-> hashB64, createdAt |-> t, role |-> role]

\* Variant: every load provisions the administrator's credentials anew
bootstrapHeadResetsAdmin(doc) ==
    LET demoId == usernameIndexGet(doc, DEMO_NAME)
        d1 == IF demoId # NoUser
              THEN [users |-> Remove(doc.users, demoId),
                    usernameIndex |-> Remove(doc.usernameIndex, DEMO_NAME),
                    userData |-> Remove(doc.userData, demoId)]
              ELSE doc
        adminId == usernameIndexGet(d1, ADMIN_NAME)
    IN  IF adminId # NoUser /\ adminId \in DOMAIN d1.users
        THEN [doc |-> ensureUserData(
                          [d1 EXCEPT !.users[adminId].saltB64 = bytesToB64(0),
                                     !.users[adminId].hashB64 = deriveHashB64(ADMIN_PW, 0),
                                     !.users[adminId].role = "admin"], adminId),
              saved |-> TRUE, done |-> TRUE]
        ELSE [doc |-> d1, saved |-> demoId # NoUser, done |-> FALSE]

\* The synchronous head of ensureAdminAndRemoveDemo, up to its first await:
\* [doc, saved, done]
bootstrapHead(doc) ==
    LET demoId == usernameIndexGet(doc, DEMO_NAME)
        d1 == IF demoId # NoUser
              THEN [users |-> Remove(doc.users, demoId),
                    usernameIndex |-> Remove(doc.usernameIndex, DEMO_NAME),
                    userData |-> Remove(doc.userData, demoId)]
              ELSE doc
        adminId == usernameIndexGet(d1, ADMIN_NAME)
    IN  IF adminId # NoUser /\ adminId \in DOMAIN d1.users
        THEN [doc |-> ensureUserData([d1 EXCEPT !.users[adminId].role = "admin"], adminId),
              saved |-> TRUE, done |-> TRUE]
        ELSE [doc |-> d1, saved |-> demoId # NoUser, done |-> FALSE]

\* The tail of ensureAdminAndRemoveDemo, after the derivation
bootstrapCommit(doc, userId, salt, t) ==
    LET user == NewUser(userId, ADMIN_NAME, salt, deriveHashB64(ADMIN_PW, salt), t, "admin")
        d1 == [doc EXCEPT !.users = Put(@, userId, user),
                          !.usernameIndex = Put(@, ADMIN_NAME, userId)]
    IN  ensureUserData(d1, userId)

\* Variant: the index is consulted before the shape
signupCheckUniqueFirst(doc, username) ==
    IF usernameIndexGet(doc, username) # NoUser THEN "signup:exists"
    ELSE IF ~isValidUsername(username) THEN "signup:badShape"
    ELSE NoNotice

\* signup up to its await: the notice of the check that fails, or NoNotice
signupCheck(doc, username) ==
    IF ~isValidUsername(username) THEN "signup:badShape"
    ELSE IF usernameIndexGet(doc, username) # NoUser THEN "signup:exists"
    ELSE NoNotice

\* signup after its await
signupCommit(doc, userId, username, salt, hashB64, t) ==
    LET user == NewUser(userId, username, salt, hashB64, t, "user")
        d1 == [doc EXCEPT !.users = Put(@, userId, user),
                          !.usernameIndex = Put(@, username, userId)]
    IN  ensureUserData(d1, userId)

\* login up to its await: the id it resolved, or 0 when it fails at once
loginLookup(doc, username) ==
    LET uid == usernameIndexGet(doc, username)
    IN  IF uid = NoUser \/ uid \notin DOMAIN doc.users THEN NoUser ELSE uid

\* Variant: every password is accepted
loginMatchesAny(hashTry, hashB64) == TRUE

\* login after its await: hashTry !== user.hashB64
loginMatches(hashTry, hashB64) == hashTry = hashB64

\* The toast of login's two failure sites (lines 1570 and 1578)
loginFailAtLookup == "login:failed"
loginFailAtCompare == "login:failed"

\* DOMContentLoaded: auto login of the remembered user
autoLogin(doc, rem) == IF rem # NoUser /\ rem \in DOMAIN doc.users THEN rem ELSE NoUser

\* ------------------------------------------------------------------ inputs
AL == <<"a", "l">>
BO == <<"b", "o">>
AuthNames ==
    {AL, ADMIN_NAME, DEMO_NAME, <<"x">>, <<"a", " ", "b">>} \cup ObjectPrototypeKeys
Passwords == {"pw1", ADMIN_PW}

GalleryInputs == {[title |-> <<" ", "A">>, color |-> <<"a", "b", "c", "d", "e", "f">>]}
GalleryPatches == {[title |-> <<"B", " ">>], [pinned |-> TRUE, color |-> <<"r", "e", "d">>]}
PostInputs == {[title |-> <<"T", " ">>]}
PostPatches == {[content |-> <<" ", "c">>]}
CommentInputs == {<<"h", "i", " ">>}
CommentPatches == {[text |-> <<" ", "y", "o">>]}

\* The ids a caller can name: registered users and the keys of userData
KnownIds == DOMAIN state.users \cup DOMAIN state.userData
GalleryIds == 1..(nextId.g - 1)
PostIds == 1..(nextId.p - 1)
CommentIds == 1..(nextId.c - 1)

\* What the caller sees of a call: its name, whether the return value is truthy
\* and the toast; for a call that succeeded also the partition and the id it was
\* about.  (A login that fails at the hash comparison keeps, in owner, the
\* account it tried.)
Last(op, ret, notice, owner, id) ==
    [op |-> op, ret |-> ret, notice |-> notice,
     owner |-> IF ret THEN owner ELSE NoUser, id |-> IF ret THEN id ELSE NoId]

\* ------------------------------------------------------------------- start
\* Script load on the persisted document `doc` with REMEMBER_KEY `rem`: loadState,
\* the head of the bootstrap, then DOMContentLoaded.
Startup(doc, rem) ==
    LET h == bootstrapHead(doc)
        uid == autoLogin(h.doc, rem)
    IN  [state |-> IF uid # NoUser THEN ensureUserData(h.doc, uid) ELSE h.doc,
         stored |-> IF h.saved THEN h.doc ELSE doc,
         userId |-> uid,
         boot |-> IF h.done THEN "done" ELSE "pending"]

Init ==
    /\ state = Startup(EmptyDoc, NoUser).state
    /\ stored = Startup(EmptyDoc, NoUser).stored
    /\ remembered = NoUser
    /\ viewState = [userId |-> Startup(EmptyDoc, NoUser).userId]
    /\ boot = Startup(EmptyDoc, NoUser).boot
    /\ pending = {}
    /\ now = 1
    /\ nextId = [u |-> 1, g |-> 1, p |-> 1, c |-> 1]
    /\ last = Last("load", TRUE, NoNotice, NoUser, NoId)

\* ----------------------------------------------------------- auth actions
\* crypto.getRandomValues(new Uint8Array(SALT_BYTES)): a salt no stored user and
\* no suspended call holds
SaltsInUse ==
    {b64ToBytes(state.users[u].saltB64) : u \in DOMAIN state.users}
        \cup {b64ToBytes(stored.users[u].saltB64) : u \in DOMAIN stored.users}
        \cup {c.salt : c \in pending}
FreshSalt == CHOOSE s \in 1..(Cardinality(SaltsInUse) + 1) : s \notin SaltsInUse

\* The bootstrap's derivation settles: lines 196-211
BootCommit ==
    /\ boot = "pending"
    /\ nextId.u <= MaxUsers
    /\ state' = bootstrapCommit(state, nextId.u, FreshSalt, now)
    /\ stored' = state'
    /\ boot' = "done"
    /\ nextId' = [nextId EXCEPT !.u = @ + 1]
    /\ last' = Last("bootstrap", TRUE, NoNotice, nextId.u, NoId)
    /\ UNCHANGED <<remembered, viewState, now, pending>>

\* The signup form is submitted while fewer than `limit` calls are suspended:
\* signup runs up to its await
SignupSubmit(username, password, limit) ==
    /\ Cardinality(pending) < limit
    /\ LET n == signupCheck(state, username)
       IN  IF n # NoNotice
           THEN /\ last' = Last("signup", FALSE, n, NoUser, NoId)
                /\ UNCHANGED pending
           ELSE /\ pending' = pending \cup
                       {[op |-> "signup", username |-> username, password |-> password,
                         salt |-> FreshSalt, uid |-> NoUser, hashB64 |-> <<>>,
                         remember |-> FALSE]}
                /\ last' = Last("signup:await", TRUE, NoNotice, NoUser, NoId)
    /\ UNCHANGED <<state, stored, remembered, viewState, now, nextId, boot>>

SignupStart(username, password) == SignupSubmit(username, password, MaxPending)

SignupCommit(c) ==
    /\ c.op = "signup"
    /\ nextId.u <= MaxUsers
    /\ state' = signupCommit(state, nextId.u, c.username, c.salt,
                             deriveHashB64(c.password, c.salt), now)
    /\ stored' = state'
    /\ pending' = pending \ {c}
    /\ nextId' = [nextId EXCEPT !.u = @ + 1]
    /\ last' = Last("signup", TRUE, "signup:created", nextId.u, NoId)
    /\ UNCHANGED <<remembered, viewState, now, boot>>

LoginStart(username, password, remember) ==
    /\ Cardinality(pending) < MaxPending
    /\ LET uid == loginLookup(state, username)
       IN  IF uid = NoUser
           THEN /\ last' = Last("login", FALSE, loginFailAtLookup, NoUser, NoId)
                /\ UNCHANGED pending
           ELSE /\ pending' = pending \cup
                       {[op |-> "login", username |-> username, password |-> password,
                         salt |-> b64ToBytes(state.users[uid].saltB64), uid |-> uid,
                         hashB64 |-> state.users[uid].hashB64, remember |-> remember]}
                /\ last' = Last("login:await", TRUE, NoNotice, NoUser, NoId)
    /\ UNCHANGED <<state, stored, remembered, viewState, now, nextId, boot>>

LoginFinish(c) ==
    /\ c.op = "login"
    /\ pending' = pending \ {c}
    /\ IF ~loginMatches(deriveHashB64(c.password, c.salt), c.hashB64)
       THEN /\ last' = [Last("login", FALSE, loginFailAtCompare, NoUser, NoId)
                          EXCEPT !.owner = c.uid]
            /\ UNCHANGED <<state, viewState, remembered>>
       ELSE /\ viewState' = [userId |-> c.uid]
            /\ state' = ensureUserData(state, c.uid)
            /\ remembered' = IF c.remember THEN c.uid ELSE NoUser
            /\ last' = Last("login", TRUE, "login:welcome", c.uid, NoId)
    /\ UNCHANGED <<stored, now, nextId, boot>>

Logout ==
    /\ viewState.userId # NoUser
    /\ viewState' = [userId |-> NoUser]
    /\ remembered' = NoUser
    /\ last' = Last("logout", TRUE, "logout", NoUser, NoId)
    /\ UNCHANGED <<state, stored, now, nextId, boot, pending>>

\* location.reload(): the script starts again on what localStorage holds
Reload ==
    /\ LET st == Startup(stored, remembered)
       IN  /\ state' = st.state
           /\ stored' = st.stored
           /\ viewState' = [userId |-> st.userId]
           /\ boot' = st.boot
    /\ pending' = {}
    /\ last' = Last("load", TRUE, NoNotice, NoUser, NoId)
    /\ UNCHANGED <<remembered, now, nextId>>

\* ------------------------------------------------------- repository actions
\* A call of a repository function at the instant `now`; the clock moves on
\* after every call that saved.
Call(op, r, owner, id) ==
    /\ state' = r.doc
    /\ stored' = IF r.saved THEN r.doc ELSE stored
    /\ now' = IF r.saved THEN now + 1 ELSE now
    /\ last' = Last(op, r.ret, r.notice, owner, id)
    /\ UNCHANGED <<remembered, viewState, boot, pending>>

CreateGallery(ownerId, data) ==
    /\ now < MaxClock /\ nextId.g <= MaxGalleries
    /\ LET r == createGallery(state, viewState.userId, ownerId, data, nextId.g, now)
       IN  /\ Call("createGallery", r, ownerId, nextId.g)
           /\ nextId' = IF r.ret THEN [nextId EXCEPT !.g = @ + 1] ELSE nextId

UpdateGallery(ownerId, gid, patch) ==
    /\ now < MaxClock
    /\ Call("updateGallery", updateGallery(state, viewState.userId, ownerId, gid, patch, now),
            ownerId, gid)
    /\ UNCHANGED nextId

DeleteGallery(ownerId, gid) ==
    /\ now < MaxClock
    /\ Call("deleteGallery", deleteGallerySoft(state, viewState.userId, ownerId, gid, now),
            ownerId, gid)
    /\ UNCHANGED nextId

RestoreGallery(ownerId, gid) ==
    /\ now < MaxClock
    /\ Call("restoreGallery", restoreGallery(state, viewState.userId, ownerId, gid, now),
            ownerId, gid)
    /\ UNCHANGED nextId

PurgeGallery(ownerId, gid) ==
    /\ now < MaxClock
    /\ Call("purgeGallery", purgeGallery(state, viewState.userId, ownerId, gid),
            ownerId, gid)
    /\ UNCHANGED nextId

CreatePost(authorId, gid, hint, data) ==
    /\ now < MaxClock /\ nextId.p <= MaxPosts
    /\ LET full == data @@ [galleryId |-> gid, galleryOwnerId |-> hint]
           r == createPost(state, viewState.userId, authorId, full, nextId.p, now)
       IN  /\ Call("createPost", r, authorId, nextId.p)
           /\ nextId' = IF r.ret THEN [nextId EXCEPT !.p = @ + 1] ELSE nextId

UpdatePost(authorId, pid, patch) ==
    /\ now < MaxClock
    /\ Call("updatePost", updatePost(state, viewState.userId, authorId, pid, patch, now),
            authorId, pid)
    /\ UNCHANGED nextId

DeletePost(authorId, pid) ==
    /\ now < MaxClock
    /\ Call("deletePost", deletePostSoft(state, viewState.userId, authorId, pid, now),
            authorId, pid)
    /\ UNCHANGED nextId

RestorePost(authorId, pid) ==
    /\ now < MaxClock
    /\ Call("restorePost", restorePost(state, viewState.userId, authorId, pid, now),
            authorId, pid)
    /\ UNCHANGED nextId

PurgePost(authorId, pid) ==
    /\ now < MaxClock
    /\ Call("purgePost", purgePost(state, viewState.userId, authorId, pid), authorId, pid)
    /\ UNCHANGED nextId

CreateComment(authorId, postId, text) ==
    /\ now < MaxClock /\ nextId.c <= MaxComments
    /\ LET r == createComment(state, viewState.userId, authorId, postId, text, nextId.c, now)
       IN  /\ Call("createComment", r, authorId, nextId.c)
           /\ nextId' = IF r.ret THEN [nextId EXCEPT !.c = @ + 1] ELSE nextId

UpdateComment(authorId, cid, patch) ==
    /\ now < MaxClock
    /\ Call("updateComment", updateComment(state, viewState.userId, authorId, cid, patch, now),
            authorId, cid)
    /\ UNCHANGED nextId

DeleteComment(authorId, cid) ==
    /\ now < MaxClock
    /\ Call("deleteComment", deleteCommentSoft(state, viewState.userId, authorId, cid, now),
            authorId, cid)
    /\ UNCHANGED nextId

\* ---------------------------------------------------------- settings actions
SliderInputs == {<<255, 0, 10>>}

ThemeDark ==
    /\ now < MaxSettingsClock /\ Call("themeDark", setTheme(state, viewState.userId, "dark"),
                          viewState.userId, NoId)
    /\ UNCHANGED nextId
ThemeLight ==
    /\ now < MaxSettingsClock /\ Call("themeLight", setTheme(state, viewState.userId, "light"),
                          viewState.userId, NoId)
    /\ UNCHANGED nextId
AccentApply(rgb) ==
    /\ now < MaxSettingsClock /\ Call("accentApply", setAccent(state, viewState.userId, rgb),
                          viewState.userId, NoId)
    /\ UNCHANGED nextId
AccentReset ==
    /\ now < MaxSettingsClock /\ Call("accentReset", setAccent(state, viewState.userId, ResetRgb),
                          viewState.userId, NoId)
    /\ UNCHANGED nextId
ViewGrid ==
    /\ now < MaxSettingsClock /\ Call("viewGrid", setViewMode(state, viewState.userId, "grid"),
                          viewState.userId, NoId)
    /\ UNCHANGED nextId
ViewList ==
    /\ now < MaxSettingsClock /\ Call("viewList", setViewMode(state, viewState.userId, "list"),
                          viewState.userId, NoId)
    /\ UNCHANGED nextId

SettingsNext ==
    \/ ThemeDark
    \/ ThemeLight
    \/ \E rgb \in SliderInputs : AccentApply(rgb)
    \/ AccentReset
    \/ ViewGrid
    \/ ViewList

\* The auth forms are on the auth screen, shown while nobody is logged in
AuthNext ==
    \/ BootCommit
    \/ \E u \in AuthNames, p \in Passwords :
           viewState.userId = NoUser /\ SignupStart(u, p)
    \/ \E c \in pending : SignupCommit(c)
    \/ \E u \in AuthNames, p \in Passwords, r \in BOOLEAN :
           viewState.userId = NoUser /\ LoginStart(u, p, r)
    \/ \E c \in pending : LoginFinish(c)
    \/ Logout
    \/ Reload

RepoNext ==
    \/ \E o \in KnownIds, d \in GalleryInputs : CreateGallery(o, d)
    \/ \E o \in KnownIds, g \in GalleryIds, d \in GalleryPatches : UpdateGallery(o, g, d)
    \/ \E o \in KnownIds, g \in GalleryIds : DeleteGallery(o, g)
    \/ \E o \in KnownIds, g \in GalleryIds : RestoreGallery(o, g)
    \/ \E o \in KnownIds, g \in GalleryIds : PurgeGallery(o, g)
    \/ \E a \in KnownIds, g \in GalleryIds, h \in KnownIds \cup {NoUser}, d \in PostInputs :
           CreatePost(a, g, h, d)
    \/ \E a \in KnownIds, p \in PostIds, d \in PostPatches : UpdatePost(a, p, d)
    \/ \E a \in KnownIds, p \in PostIds : DeletePost(a, p)
    \/ \E a \in KnownIds, p \in PostIds : RestorePost(a, p)
    \/ \E a \in KnownIds, p \in PostIds : PurgePost(a, p)
    \/ \E a \in KnownIds, p \in PostIds, t \in CommentInputs : CreateComment(a, p, t)
    \/ \E a \in KnownIds, c \in CommentIds, d \in CommentPatches : UpdateComment(a, c, d)
    \/ \E a \in KnownIds, c \in CommentIds : DeleteComment(a, c)

Next == AuthNext \/ RepoNext

Spec == Init /\ [][Next]_vars

\* --------------------------------------------------- the repository at work
\* The document after a first run: the bootstrap has provisioned admin (id 1),
\* then al (id 2) and bo (id 3) have signed up.  Nobody is logged in.
RepoDoc ==
    LET d0 == bootstrapCommit(EmptyDoc, 1, 1, 1)
        d1 == signupCommit(d0, 2, AL, 2, deriveHashB64("pw1", 2), 1)
    IN  signupCommit(d1, 3, BO, 3, deriveHashB64("pw1", 3), 1)

InitRepo ==
    /\ state = RepoDoc
    /\ stored = RepoDoc
    /\ remembered = NoUser
    /\ viewState = [userId |-> NoUser]
    /\ boot = "done"
    /\ pending = {}
    /\ now = 1
    /\ nextId = [u |-> 4, g |-> 1, p |-> 1, c |-> 1]
    /\ last = Last("signup", TRUE, "signup:created", 3, NoId)

RepoLogins == {<<AL, "pw1">>, <<BO, "pw1">>, <<ADMIN_NAME, ADMIN_PW>>}

SessionNext ==
    \/ \E l \in RepoLogins : viewState.userId = NoUser /\ LoginStart(l[1], l[2], FALSE)
    \/ \E c \in pending : LoginFinish(c)
    \/ Logout

NextRepo == SessionNext \/ RepoNext

SpecRepo == InitRepo /\ [][NextRepo]_vars

SpecAuth == Init /\ [][AuthNext]_vars

\* ------------------------------------------------ the site with a demo account
\* The document after a first run on which the bootstrap has provisioned admin
\* (id 1) and a user named demo (id 2) has signed up.  Nobody is logged in.
DemoDoc ==
    LET d0 == bootstrapCommit(EmptyDoc, 1, 1, 1)
    IN  signupCommit(d0, 2, DEMO_NAME, 2, deriveHashB64("pw1", 2), 1)

InitDemo ==
    /\ state = DemoDoc
    /\ stored = DemoDoc
    /\ remembered = NoUser
    /\ viewState = [userId |-> NoUser]
    /\ boot = "done"
    /\ pending = {}
    /\ now = 1
    /\ nextId = [u |-> 3, g |-> 1, p |-> 1, c |-> 1]
    /\ last = Last("signup", TRUE, "signup:created", 2, NoId)

DemoLogins == {<<DEMO_NAME, "pw1">>, <<ADMIN_NAME, ADMIN_PW>>}

\* Sessions, page loads and the repository
NextDemo ==
    \/ \E l \in DemoLogins : viewState.userId = NoUser /\ LoginStart(l[1], l[2], FALSE)
    \/ \E c \in pending : LoginFinish(c)
    \/ Logout
    \/ Reload
    \/ RepoNext

SpecDemo == InitDemo /\ [][NextDemo]_vars

\* The same site with the signup form in use: one more name registers, and the
\* administrator's name is tried again.
AccountSignups == {BO, ADMIN_NAME}

NextAccounts ==
    \/ \E u \in AccountSignups : viewState.userId = NoUser /\ SignupStart(u, "pw1")
    \/ \E c \in pending : SignupCommit(c)
    \/ NextDemo

SpecAccounts == InitDemo /\ [][NextAccounts]_vars

\* ------------------------------------------------ the signup form, impatiently
\* The submit handler does not disable the form while signup awaits its
\* derivation: a second submit starts a second call on the same document.
MaxSubmits == 2
SubmitNames == {DEMO_NAME, AL}

NextSubmit ==
    \/ BootCommit
    \/ \E u \in SubmitNames : viewState.userId = NoUser /\ SignupSubmit(u, "pw1", MaxSubmits)
    \/ \E c \in pending : SignupCommit(c)
    \/ Reload

SpecSubmit == Init /\ [][NextSubmit]_vars

\* The content the settings menu is used next to, called as the buttons call
\* it: the session user creates records of each kind as their own (lines 1207,
\* 1333, 1482), and deletes a gallery or purges a post after the handler's own
\* canManage test (lines 1173, 1858).
ContentNext ==
    \/ \E d \in GalleryInputs :
           /\ now < MaxSettingsClock /\ viewState.userId # NoUser
           /\ CreateGallery(viewState.userId, d)
    \/ \E g \in GalleryIds, d \in PostInputs :
           \E h \in GalleryHolders(state, g) :
               /\ now < MaxSettingsClock /\ viewState.userId # NoUser
               /\ CreatePost(viewState.userId, g, h, d)
    \/ \E p \in PostIds, t \in CommentInputs :
           /\ now < MaxSettingsClock /\ viewState.userId # NoUser
           /\ CreateComment(viewState.userId, p, t)
    \/ \E o \in KnownIds, g \in GalleryIds :
           /\ now < MaxSettingsClock /\ canManage(state, viewState.userId, o)
           /\ DeleteGallery(o, g)
    \/ \E a \in KnownIds, p \in PostIds :
           /\ now < MaxSettingsClock /\ canManage(state, viewState.userId, a)
           /\ PurgePost(a, p)

\* The signed-in application: settings menu and content
NextSettings == SessionNext \/ SettingsNext \/ ContentNext

SpecSettings == InitRepo /\ [][NextSettings]_vars

\* =========================================================================
\* Claims
\* =========================================================================
Session == viewState.userId

\* Every post of the document as <<author, post id>>
PostKeys(doc) ==
    UNION {{<<a, p>> : p \in DOMAIN doc.userData[a].posts} : a \in DOMAIN doc.userData}
PostAt(doc, ap) == doc.userData[ap[1]].posts[ap[2]]

CommentKeys(doc) ==
    UNION {{<<a, c>> : c \in DOMAIN doc.userData[a].comments} : a \in DOMAIN doc.userData}
CommentAt(doc, ac) == doc.userData[ac[1]].comments[ac[2]]

GalleryKeys(doc) ==
    UNION {{<<o, g>> : g \in DOMAIN doc.userData[o].galleries} : o \in DOMAIN doc.userData}
GalleryAt(doc, og) == doc.userData[og[1]].galleries[og[2]]

\* The post at ap references gallery g of partition o
Under(doc, ap, o, g) ==
    /\ PostAt(doc, ap).galleryId = g
    /\ \/ PostAt(doc, ap).galleryOwnerId = o
       \/ PostAt(doc, ap).galleryOwnerId = NoUser /\ ap[1] = o

Tombstoned(x) == x.deletedAt # NoTime

\* Every repository call the session user can make now, with its result
RepoCalls ==
    {[op |-> "createGallery", owner |-> o, id |-> nextId.g,
      r |-> createGallery(state, Session, o, d, nextId.g, now)] :
        o \in KnownIds, d \in GalleryInputs}
    \cup {[op |-> "updateGallery", owner |-> x[1], id |-> x[2],
           r |-> updateGallery(state, Session, x[1], x[2], x[3], now)] :
             x \in KnownIds \X GalleryIds \X GalleryPatches}
    \cup {[op |-> "deleteGallery", owner |-> x[1], id |-> x[2],
           r |-> deleteGallerySoft(state, Session, x[1], x[2], now)] :
             x \in KnownIds \X GalleryIds}
    \cup {[op |-> "restoreGallery", owner |-> x[1], id |-> x[2],
           r |-> restoreGallery(state, Session, x[1], x[2], now)] :
             x \in KnownIds \X GalleryIds}
    \cup {[op |-> "purgeGallery", owner |-> x[1], id |-> x[2],
           r |-> purgeGallery(state, Session, x[1], x[2])] :
             x \in KnownIds \X GalleryIds}
    \cup {[op |-> "createPost", owner |-> x[1], id |-> nextId.p,
           r |-> createPost(state, Session, x[1],
                            x[4] @@ [galleryId |-> x[2], galleryOwnerId |-> x[3]],
                            nextId.p, now)] :
             x \in KnownIds \X GalleryIds \X (KnownIds \cup {NoUser}) \X PostInputs}
    \cup {[op |-> "updatePost", owner |-> x[1], id |-> x[2],
           r |-> updatePost(state, Session, x[1], x[2], x[3], now)] :
             x \in KnownIds \X PostIds \X PostPatches}
    \cup {[op |-> "deletePost", owner |-> x[1], id |-> x[2],
           r |-> deletePostSoft(state, Session, x[1], x[2], now)] :
             x \in KnownIds \X PostIds}
    \cup {[op |-> "restorePost", owner |-> x[1], id |-> x[2],
           r |-> restorePost(state, Session, x[1], x[2], now)] :
             x \in KnownIds \X PostIds}
    \cup {[op |-> "purgePost", owner |-> x[1], id |-> x[2],
           r |-> purgePost(state, Session, x[1], x[2])] :
             x \in KnownIds \X PostIds}
    \cup {[op |-> "createComment", owner |-> x[1], id |-> nextId.c,
           r |-> createComment(state, Session, x[1], x[2], x[3], nextId.c, now)] :
             x \in KnownIds \X PostIds \X CommentInputs}
    \cup {[op |-> "updateComment", owner |-> x[1], id |-> x[2],
           r |-> updateComment(state, Session, x[1], x[2], x[3], now)] :
             x \in KnownIds \X CommentIds \X CommentPatches}
    \cup {[op |-> "deleteComment", owner |-> x[1], id |-> x[2],
           r |-> deleteCommentSoft(state, Session, x[1], x[2], now)] :
             x \in KnownIds \X CommentIds}

\* C1: a successful deleteGallery(o, g) tombstones g; every post of any partition
\* under (o, g) that was alive is now tombstoned with deletedByGallery = TRUE;
\* every post under (o, g) that was already tombstoned, and every post under
\* another gallery, is exactly as it was.
C1_DeleteGalleryCascade ==
    \A o \in KnownIds, g \in GalleryIds :
        LET r == deleteGallerySoft(state, Session, o, g, now)
        IN  r.ret =>
              /\ Tombstoned(GalleryAt(r.doc, <<o, g>>))
              /\ PostKeys(r.doc) = PostKeys(state)
              /\ \A ap \in PostKeys(state) :
                    IF Under(state, ap, o, g) /\ ~Tombstoned(PostAt(state, ap))
                    THEN /\ Tombstoned(PostAt(r.doc, ap))
                         /\ PostAt(r.doc, ap).deletedByGallery = TRUE
                    ELSE PostAt(r.doc, ap) = PostAt(state, ap)

\* A deleteGallery has just tombstoned, by cascade, a post held in a partition
\* other than the gallery owner's.
C1_Witness ==
    /\ last.op = "deleteGallery" /\ last.ret
    /\ \E ap \in PostKeys(state) :
          /\ Under(state, ap, last.owner, last.id)
          /\ ap[1] # last.owner
          /\ PostAt(state, ap).deletedByGallery
          /\ PostAt(state, ap).deletedAt = GalleryAt(state, <<last.owner, last.id>>).deletedAt

\* C2: a successful restoreGallery(o, g) clears g's tombstone; the posts whose
\* tombstone it clears are exactly the posts under (o, g) that had
\* deletedByGallery = TRUE, each ending with the flag FALSE; every other post
\* keeps its deletedAt and its flag.
C2_RestoreGalleryCascade ==
    \A o \in KnownIds, g \in GalleryIds :
        LET r == restoreGallery(state, Session, o, g, now)
            flagged == {ap \in PostKeys(state) :
                          Under(state, ap, o, g) /\ PostAt(state, ap).deletedByGallery}
            cleared == {ap \in PostKeys(state) :
                          /\ Tombstoned(PostAt(state, ap))
                          /\ ap \in PostKeys(r.doc)
                          /\ ~Tombstoned(PostAt(r.doc, ap))}
        IN  r.ret =>
              /\ ~Tombstoned(GalleryAt(r.doc, <<o, g>>))
              /\ PostKeys(r.doc) = PostKeys(state)
              /\ cleared = flagged
              /\ \A ap \in flagged : PostAt(r.doc, ap).deletedByGallery = FALSE
              /\ \A ap \in PostKeys(state) \ flagged :
                    /\ PostAt(r.doc, ap).deletedAt = PostAt(state, ap).deletedAt
                    /\ PostAt(r.doc, ap).deletedByGallery = PostAt(state, ap).deletedByGallery

\* A restoreGallery has just brought back a post its gallery's deletion had
\* tombstoned (the post was re-stamped at the instant the gallery was).
C2_Witness ==
    /\ last.op = "restoreGallery" /\ last.ret
    /\ \E ap \in PostKeys(state) :
          /\ Under(state, ap, last.owner, last.id)
          /\ ~Tombstoned(PostAt(state, ap))
          /\ ~PostAt(state, ap).deletedByGallery
          /\ PostAt(state, ap).updatedAt = GalleryAt(state, <<last.owner, last.id>>).updatedAt
          /\ PostAt(state, ap).createdAt < PostAt(state, ap).updatedAt

\* Tombstone status and flag of every post, and of every gallery
Status(doc) ==
    [posts |-> [ap \in PostKeys(doc) |->
                  <<Tombstoned(PostAt(doc, ap)), PostAt(doc, ap).deletedByGallery>>],
     galleries |-> [og \in GalleryKeys(doc) |-> Tombstoned(GalleryAt(doc, og))]]

\* C3: from any reachable state, deleteGallery(o, g) on an alive gallery followed
\* at once by restoreGallery(o, g) leaves g and every post with the tombstone
\* status and the deletedByGallery value it had before the delete.
C3_DeleteRestoreRoundTrip ==
    \A o \in KnownIds, g \in GalleryIds :
        LET r1 == deleteGallerySoft(state, Session, o, g, now)
            r2 == restoreGallery(r1.doc, Session, o, g, now + 1)
        IN  r1.ret => r2.ret /\ Status(r2.doc) = Status(state)

\* A deleteGallery has just acted on a gallery holding a post it tombstoned and
\* the restore that undoes it is open to the same caller.
C3_Witness ==
    /\ last.op = "deleteGallery" /\ last.ret
    /\ \E ap \in PostKeys(state) :
          Under(state, ap, last.owner, last.id) /\ PostAt(state, ap).deletedByGallery
    /\ restoreGallery(state, Session, last.owner, last.id, now).ret

\* The session user is an administrator; the session user may act on partition o
SessionIsAdmin ==
    Session \in DOMAIN state.users /\ state.users[Session].role = "admin"
Permitted(o) == SessionIsAdmin \/ (Session # NoUser /\ Session = o)

C5_PurgeGallery ==
    \A o \in KnownIds, g \in GalleryIds :
        LET r == purgeGallery(state, Session, o, g)
            gone == {ap \in PostKeys(state) : Under(state, ap, o, g)}
            goneIds == {ap[2] : ap \in gone}
        IN  r.ret =>
              /\ \A og \in GalleryKeys(r.doc) : og[2] # g
              /\ \A ap \in PostKeys(r.doc) : ~Under(r.doc, ap, o, g)
              /\ \A ac \in CommentKeys(r.doc) : CommentAt(r.doc, ac).postId \notin goneIds
              /\ GalleryKeys(r.doc) = GalleryKeys(state) \ {<<o, g>>}
              /\ \A og \in GalleryKeys(r.doc) : GalleryAt(r.doc, og) = GalleryAt(state, og)
              /\ PostKeys(r.doc) = PostKeys(state) \ gone
              /\ \A ap \in PostKeys(r.doc) : PostAt(r.doc, ap) = PostAt(state, ap)
              /\ CommentKeys(r.doc) =
                    {ac \in CommentKeys(state) : CommentAt(state, ac).postId \notin goneIds}
              /\ \A ac \in CommentKeys(r.doc) : CommentAt(r.doc, ac) = CommentAt(state, ac)
              /\ r.doc.users = state.users
              /\ r.doc.usernameIndex = state.usernameIndex

\* A purgeGallery has just removed a gallery together with the post and the
\* comment that had been created under it.
C5_Witness ==
    /\ last.op = "purgeGallery" /\ last.ret
    /\ nextId.p > 1 /\ PostKeys(state) = {}
    /\ nextId.c > 1 /\ CommentKeys(state) = {}
    /\ GalleryKeys(state) = {}

\* The gallery a post belongs to, as <<owner, gallery id>>
GalleryOf(doc, ap) ==
    <<IF PostAt(doc, ap).galleryOwnerId = NoUser THEN ap[1]
      ELSE PostAt(doc, ap).galleryOwnerId,
      PostAt(doc, ap).galleryId>>

C7_StrangerIsRefused ==
    \A c \in RepoCalls :
        ~Permitted(c.owner) => ~c.r.ret /\ ~c.r.saved /\ c.r.doc = state

\* A signed-in user who is no administrator has just been refused the purge of
\* a gallery that exists in somebody else's partition.
C7_Witness ==
    /\ last.op = "purgeGallery" /\ ~last.ret /\ last.notice = "denied:purgeGallery"
    /\ Session # NoUser /\ ~SessionIsAdmin
    /\ \E og \in GalleryKeys(state) : og[1] # Session

\* The call c made by the owner of its target partition instead
AsOwner(c) ==
    CASE c.op = "deleteGallery" -> deleteGallerySoft(state, c.owner, c.owner, c.id, now)
      [] c.op = "purgeGallery"  -> purgeGallery(state, c.owner, c.owner, c.id)
      [] c.op = "deletePost"    -> deletePostSoft(state, c.owner, c.owner, c.id, now)
      [] c.op = "purgePost"     -> purgePost(state, c.owner, c.owner, c.id)
      [] c.op = "deleteComment" -> deleteCommentSoft(state, c.owner, c.owner, c.id, now)

\* C8: an administrator's deleteGallery, purgeGallery, deletePost, purgePost and
\* deleteComment on another user's partition succeed whenever the same call by
\* that partition's owner would, and with the same resulting document.
C8_AdminActsAnywhere ==
    SessionIsAdmin =>
        \A c \in RepoCalls :
            (/\ c.op \in {"deleteGallery", "purgeGallery", "deletePost", "purgePost",
                          "deleteComment"}
             /\ c.owner # Session
             /\ AsOwner(c).ret)
            => c.r.ret /\ c.r.doc = AsOwner(c).doc

\* The administrator has just deleted a comment held in another user's partition.
C8_Witness ==
    /\ last.op = "deleteComment" /\ last.ret
    /\ SessionIsAdmin
    /\ last.owner # Session
    /\ Tombstoned(CommentAt(state, <<last.owner, last.id>>))

\* No account carries the username u
Unregistered(doc, u) == \A id \in DOMAIN doc.users : doc.users[id].username # u

\* C9: for every username u of valid shape that no account carries, and every
\* password p, signup(u, p) passes its checks and creates the account, and a
\* login(u, p) after it resolves u to the id usernameIndex[u] of that account
\* and accepts p.
C9_SignupThenLogin ==
    \A u \in AuthNames, p \in Passwords :
        (isValidUsername(u) /\ Unregistered(state, u)) =>
            /\ signupCheck(state, u) = NoNotice
            /\ LET d == signupCommit(state, nextId.u, u, FreshSalt,
                                     deriveHashB64(p, FreshSalt), now)
                   uid == loginLookup(d, u)
               IN  /\ uid = nextId.u
                   /\ uid = usernameIndexGet(d, u)
                   /\ loginMatches(deriveHashB64(p, b64ToBytes(d.users[uid].saltB64)),
                                   d.users[uid].hashB64)

\* The password an account was created with
PasswordOf(user) == user.hashB64[2]

\* C10: a login with a wrong password for a registered username and a login with
\* an unknown username both fail, with the same return value and the same
\* notice, and leave the session, the remembered user and the document, in
\* memory and stored, unchanged.
C10_LoginFailuresAlike ==
    [][/\ \A u \in AuthNames : Unregistered(state, u) => loginLookup(state, u) = NoUser
       /\ \A c \in pending \ pending' :
             (/\ c.op = "login"
              /\ last'.op = "login"
              /\ c.uid \in DOMAIN state.users
              /\ c.password # PasswordOf(state.users[c.uid]))
             => ~last'.ret
       /\ (last'.op = "login" /\ ~last'.ret) =>
             /\ last'.notice = "login:failed"
             /\ state' = state /\ stored' = stored
             /\ viewState' = viewState /\ remembered' = remembered]_vars

\* A login with a wrong password for a registered username has just failed.
C10_Witness ==
    /\ last.op = "login" /\ ~last.ret
    /\ last.owner \in DOMAIN state.users
    /\ state.users[last.owner].username \in AuthNames

\* C11: in every reachable state, signups and the admin bootstrap interleaved
\* across their hash derivations included, no two accounts carry the same
\* username, every account's username is indexed to its id, and every entry of
\* usernameIndex names an account that carries that username.
C11_RegistryConsistent ==
    /\ \A i, j \in DOMAIN state.users :
          state.users[i].username = state.users[j].username => i = j
    /\ \A i \in DOMAIN state.users :
          /\ state.users[i].username \in DOMAIN state.usernameIndex
          /\ state.usernameIndex[state.users[i].username] = i
    /\ \A n \in DOMAIN state.usernameIndex :
          /\ state.usernameIndex[n] \in DOMAIN state.users
          /\ state.users[state.usernameIndex[n]].username = n

\* C12: in every reachable state every post with deletedByGallery = TRUE has a
\* deletedAt.
C12_FlagImpliesTombstone ==
    \A ap \in PostKeys(state) :
        PostAt(state, ap).deletedByGallery => Tombstoned(PostAt(state, ap))

\* Some post carries the flag together with the tombstone its gallery's
\* deletion gave it.
C12_Witness ==
    \E ap \in PostKeys(state) :
        /\ PostAt(state, ap).deletedByGallery
        /\ PostAt(state, ap).deletedAt # NoTime
        /\ PostAt(state, ap).deletedAt = GalleryAt(state, GalleryOf(state, ap)).deletedAt

\* C13: a post's deletedByGallery goes from TRUE to FALSE only in a successful
\* restoreGallery of the post's gallery, which clears the post's tombstone in the
\* same step; no restorePost and no other repository call turns a TRUE flag
\* into FALSE.
C13_FlagClearedOnlyByCascade ==
    \A ap \in PostKeys(state) :
        PostAt(state, ap).deletedByGallery =>
            \A c \in RepoCalls :
                (ap \in PostKeys(c.r.doc) /\ ~PostAt(c.r.doc, ap).deletedByGallery) =>
                    /\ c.op = "restoreGallery" /\ c.r.ret
                    /\ Under(state, ap, c.owner, c.id)
                    /\ ~Tombstoned(PostAt(c.r.doc, ap))

\* A restorePost by a permitted caller on a post that carries the flag has just
\* been refused, and the post still carries the flag.
C13_Witness ==
    /\ last.op = "restorePost" /\ ~last.ret /\ last.notice = "galleryDeleted"
    /\ \E ap \in PostKeys(state) :
          /\ PostAt(state, ap).deletedByGallery
          /\ Permitted(ap[1])

\* Ids handed out and no longer present in any partition.  Only purgeGallery and
\* purgePost remove records, so these are the purged ids.
PurgedGalleries(doc) == GalleryIds \ {og[2] : og \in GalleryKeys(doc)}
PurgedPosts(doc) == PostIds \ {ap[2] : ap \in PostKeys(doc)}
PurgedComments(doc) == CommentIds \ {ac[2] : ac \in CommentKeys(doc)}

\* C14: purge is terminal.  No repository call makes a purged gallery, post or
\* comment id present again; update, delete, restore and purge on a purged id
\* fail; and a successful purgeGallery or purgePost leaves no record, tombstoned
\* or not, of the entity, of the posts under a purged gallery or of the comments
\* on a purged post.
C14_PurgeIsTerminal ==
    \A c \in RepoCalls :
        /\ PurgedGalleries(state) \subseteq PurgedGalleries(c.r.doc)
        /\ PurgedPosts(state) \subseteq PurgedPosts(c.r.doc)
        /\ PurgedComments(state) \subseteq PurgedComments(c.r.doc)
        /\ (/\ c.op \in {"updateGallery", "deleteGallery", "restoreGallery", "purgeGallery"}
            /\ c.id \in PurgedGalleries(state)) => ~c.r.ret /\ ~c.r.saved
        /\ (/\ c.op \in {"updatePost", "deletePost", "restorePost", "purgePost"}
            /\ c.id \in PurgedPosts(state)) => ~c.r.ret /\ ~c.r.saved
        /\ (/\ c.op \in {"updateComment", "deleteComment"}
            /\ c.id \in PurgedComments(state)) => ~c.r.ret /\ ~c.r.saved
        /\ (c.op = "purgeGallery" /\ c.r.ret) =>
              /\ c.id \in PurgedGalleries(c.r.doc)
              /\ \A ap \in PostKeys(state) :
                    Under(state, ap, c.owner, c.id) =>
                        /\ ap[2] \in PurgedPosts(c.r.doc)
                        /\ \A ac \in CommentKeys(state) :
                              CommentAt(state, ac).postId = ap[2] =>
                                  ac[2] \in PurgedComments(c.r.doc)
        /\ (c.op = "purgePost" /\ c.r.ret) =>
              /\ c.id \in PurgedPosts(c.r.doc)
              /\ \A ac \in CommentKeys(state) :
                    CommentAt(state, ac).postId = c.id => ac[2] \in PurgedComments(c.r.doc)

\* After the only post was purged, a restorePost by a permitted caller on the
\* purged post id has just failed; no record of the post is left.
C14_Witness ==
    /\ last.op = "restorePost" /\ ~last.ret /\ last.notice = NoNotice
    /\ PostKeys(state) = {} /\ PurgedPosts(state) # {}
    /\ GalleryKeys(state) # {}

\* C15: purgePost(author, P) succeeds exactly when the caller may manage the
\* author's partition and P is held there; after it P is in no partition and
\* no partition holds a comment on P, whoever wrote it and whether or not the
\* caller could have deleted it; comments on other posts, other posts and
\* galleries are unchanged.
C15_PurgePost ==
    \A a \in KnownIds, p \in PostIds :
        LET r == purgePost(state, Session, a, p)
        IN  /\ r.ret <=> (Permitted(a) /\ <<a, p>> \in PostKeys(state))
            /\ r.ret =>
                  /\ \A bq \in PostKeys(r.doc) : bq[2] # p
                  /\ \A ac \in CommentKeys(r.doc) : CommentAt(r.doc, ac).postId # p
                  /\ CommentKeys(r.doc) =
                        {ac \in CommentKeys(state) : CommentAt(state, ac).postId # p}
                  /\ \A ac \in CommentKeys(r.doc) : CommentAt(r.doc, ac) = CommentAt(state, ac)
                  /\ PostKeys(r.doc) = PostKeys(state) \ {<<a, p>>}
                  /\ \A bq \in PostKeys(r.doc) : PostAt(r.doc, bq) = PostAt(state, bq)
                  /\ GalleryKeys(r.doc) = GalleryKeys(state)
                  /\ \A og \in GalleryKeys(r.doc) : GalleryAt(r.doc, og) = GalleryAt(state, og)

\* A user who is no administrator purges their own post while it carries a
\* comment written by somebody else, a comment this user may not delete: the
\* purge succeeds and the comment is gone with the post.
C15_Witness ==
    /\ Session # NoUser /\ ~SessionIsAdmin
    /\ \E p \in PostIds, ac \in CommentKeys(state) :
          /\ <<Session, p>> \in PostKeys(state)
          /\ CommentAt(state, ac).postId = p
          /\ ac[1] # Session
          /\ ~deleteCommentSoft(state, Session, ac[1], ac[2], now).ret
          /\ purgePost(state, Session, Session, p).ret
          /\ ac \notin CommentKeys(purgePost(state, Session, Session, p).doc)

\* The document as an earlier version of the program stored it: a post in its
\* author's own gallery carries no galleryOwnerId.
Legacy(doc) ==
    [doc EXCEPT !.userData =
        [a \in DOMAIN doc.userData |->
            [doc.userData[a] EXCEPT !.posts =
                [p \in DOMAIN doc.userData[a].posts |->
                    IF doc.userData[a].posts[p].galleryOwnerId = a
                    THEN [doc.userData[a].posts[p] EXCEPT !.galleryOwnerId = NoUser]
                    ELSE doc.userData[a].posts[p]]]]]

\* C16: in every reachable state listPostsInGallery(o, g, includeDeleted =
\* false) returns exactly the posts, of any partition, that reference (o, g) and
\* have no deletedAt, a post without galleryOwnerId counting as referencing its
\* author's gallery.
C16_ListAlivePosts ==
    \A o \in KnownIds, g \in GalleryIds :
        /\ listPostsInGallery(state, o, g, FALSE) =
              {ap \in PostKeys(state) :
                  Under(state, ap, o, g) /\ PostAt(state, ap).deletedAt = NoTime}
        /\ listPostsInGallery(Legacy(state), o, g, FALSE) =
              {ap \in PostKeys(state) :
                  Under(state, ap, o, g) /\ PostAt(state, ap).deletedAt = NoTime}

\* A gallery holds a tombstoned post and an alive post written by a user other
\* than the gallery's owner; the listing has the alive one only.
C16_Witness ==
    \E og \in GalleryKeys(state), ap, bq \in PostKeys(state) :
        /\ Under(state, ap, og[1], og[2]) /\ Tombstoned(PostAt(state, ap))
        /\ Under(state, bq, og[1], og[2]) /\ ~Tombstoned(PostAt(state, bq))
        /\ bq[1] # og[1]
        /\ listPostsInGallery(state, og[1], og[2], FALSE) = {bq}

\* C17: createPost(author, {galleryId, galleryOwnerId hint}) by a caller who may
\* manage the author's partition succeeds exactly when some partition holds a
\* gallery with that id that is not tombstoned.  On success the one new post is
\* in the author's partition, alive, with deletedByGallery = FALSE, and its
\* (galleryOwnerId, galleryId) names the partition that holds the gallery,
\* whatever the hint was.  Otherwise the call fails and the document is
\* unchanged.
C17_CreatePost ==
    \A a \in KnownIds, g \in GalleryIds \cup {NoId},
       h \in KnownIds \cup {NoUser}, d \in PostInputs :
        LET r == createPost(state, Session, a,
                            d @@ [galleryId |-> g, galleryOwnerId |-> h], nextId.p, now)
            holders == {o \in DOMAIN state.userData : <<o, g>> \in GalleryKeys(state)}
            usable == \E o \in holders : ~Tombstoned(GalleryAt(state, <<o, g>>))
            new == <<a, nextId.p>>
        IN  /\ r.ret <=> (Permitted(a) /\ usable)
            /\ r.ret =>
                  /\ PostKeys(r.doc) = PostKeys(state) \cup {new}
                  /\ new \notin PostKeys(state)
                  /\ \A bq \in PostKeys(state) : PostAt(r.doc, bq) = PostAt(state, bq)
                  /\ PostAt(r.doc, new).deletedAt = NoTime
                  /\ PostAt(r.doc, new).deletedByGallery = FALSE
                  /\ PostAt(r.doc, new).galleryId = g
                  /\ PostAt(r.doc, new).galleryOwnerId \in holders
                  /\ ~Tombstoned(GalleryAt(r.doc, GalleryOf(r.doc, new)))
            /\ ~r.ret => r.doc = state /\ ~r.saved

\* A user who is no administrator has just created a post in a gallery that
\* another user owns: the post is in the author's partition and names the
\* gallery owner's.
C17_Witness ==
    /\ last.op = "createPost" /\ last.ret
    /\ ~SessionIsAdmin /\ Session = last.owner
    /\ <<last.owner, last.id>> \in PostKeys(state)
    /\ PostAt(state, <<last.owner, last.id>>).galleryOwnerId # last.owner
    /\ GalleryOf(state, <<last.owner, last.id>>) \in GalleryKeys(state)

SettingsOf(doc, u) == doc.userData[u].settings

\* Every settings button the session user can press now, with its result
SettingsCalls ==
    {[op |-> "theme", r |-> setTheme(state, Session, t)] : t \in {"dark", "light"}}
    \cup {[op |-> "accent", r |-> setAccent(state, Session, rgb)] :
            rgb \in SliderInputs \cup {ResetRgb}}
    \cup {[op |-> "viewMode", r |-> setViewMode(state, Session, m)] : m \in {"grid", "list"}}

\* C18: a partition's settings change only by a settings action performed
\* while the partition's owner is the session user: a settings action leaves
\* every other partition's settings (and everything but the session user's
\* settings) as they were, also for an administrator; without a session it
\* changes nothing; and no repository call, by anyone, changes any partition's
\* settings.
C18_SettingsAreOwn ==
    /\ \A c \in SettingsCalls :
          /\ DOMAIN c.r.doc.userData = DOMAIN state.userData
          /\ \A u \in DOMAIN state.userData :
                u # Session => c.r.doc.userData[u] = state.userData[u]
          /\ Session = NoUser => c.r.doc = state /\ ~c.r.saved
          /\ Session # NoUser =>
                /\ c.r.doc.users = state.users
                /\ [c.r.doc.userData[Session] EXCEPT !.settings = 0] =
                      [state.userData[Session] EXCEPT !.settings = 0]
    /\ \A c \in RepoCalls :
          /\ DOMAIN c.r.doc.userData = DOMAIN state.userData
          /\ \A u \in DOMAIN state.userData : SettingsOf(c.r.doc, u) = SettingsOf(state, u)

\* The administrator has just switched to the light theme: the administrator's
\* partition has it, another user's partition keeps the settings that user
\* chose, and a third user's are still the defaults.
C18_Witness ==
    /\ last.op = "themeLight" /\ last.ret /\ SessionIsAdmin
    /\ SettingsOf(state, Session).theme = "light"
    /\ \E u, v \in DOMAIN state.userData :
          /\ u # Session /\ v # Session /\ u # v
          /\ SettingsOf(state, u).viewMode = "list"
          /\ SettingsOf(state, u).theme = "dark"
          /\ SettingsOf(state, v) = DefaultSettings

\* C19: while a signup or login is suspended in its hash derivation no other
\* command changes the in-memory document before the suspended command commits,
\* and the uniqueness check a signup made before its derivation still passes on
\* the document it writes the new user into.
C19_NoInterleaving ==
    [][/\ \A c \in pending \cap pending' : state' = state
       /\ \A c \in pending \ pending' :
             (c.op = "signup" /\ last'.op = "signup") =>
                 signupCheck(state, c.username) = NoNotice]_vars

AdminIds(doc) == {i \in DOMAIN doc.users : doc.users[i].role = "admin"}

\* C20: when the bootstrap has just completed, by its commit on a first run or
\* at a page load that found a user named admin, exactly one account holds the
\* role admin and it is the account usernameIndex maps the name admin to.
C20_OneAdminAfterBootstrap ==
    (boot = "done" /\ last.op \in {"bootstrap", "load"}) =>
        /\ Cardinality(AdminIds(state)) = 1
        /\ ADMIN_NAME \in DOMAIN state.usernameIndex
        /\ AdminIds(state) = {state.usernameIndex[ADMIN_NAME]}

\* The operations on an existing gallery, post or comment, by kind of target
GalleryOps == {"updateGallery", "deleteGallery", "restoreGallery", "purgeGallery"}
PostOps == {"updatePost", "deletePost", "restorePost", "purgePost"}
CommentOps == {"updateComment", "deleteComment"}
TargetOps == GalleryOps \cup PostOps \cup CommentOps

\* The named partition holds the target of call c; the target is tombstoned
TargetPresent(c) ==
    CASE c.op \in GalleryOps -> <<c.owner, c.id>> \in GalleryKeys(state)
      [] c.op \in PostOps    -> <<c.owner, c.id>> \in PostKeys(state)
      [] c.op \in CommentOps -> <<c.owner, c.id>> \in CommentKeys(state)
TargetTombstoned(c) ==
    CASE c.op \in GalleryOps -> Tombstoned(GalleryAt(state, <<c.owner, c.id>>))
      [] c.op \in PostOps    -> Tombstoned(PostAt(state, <<c.owner, c.id>>))
      [] c.op \in CommentOps -> Tombstoned(CommentAt(state, <<c.owner, c.id>>))

\* Why a failing call on an existing-entity operation failed, in the spec's
\* taxonomy, read off the state the call was made in
FailureCause(c) ==
    IF ~Permitted(c.owner) THEN "PermissionDenied"
    ELSE IF ~TargetPresent(c) THEN "NotFound"
    ELSE IF c.op \in {"restoreGallery", "restorePost"} /\ ~TargetTombstoned(c)
    THEN "NotDeleted"
    ELSE IF c.op \notin {"restoreGallery", "restorePost"} /\ TargetTombstoned(c)
    THEN "AlreadyDeleted"
    ELSE "ParentUnavailable"

\* What the caller can tell a call's end by: the return value and the notice
Outcome(c) == <<c.r.ret, c.r.notice>>

DeniedNotices ==
    {"denied:createGallery", "denied:updateGallery", "denied:deleteGallery",
     "denied:restoreGallery", "denied:purgeGallery", "denied:createPost",
     "denied:updatePost", "denied:deletePost", "denied:restorePost",
     "denied:purgePost", "denied:createComment", "denied:updateComment",
     "denied:deleteComment"}

C22_PurgeOnlyFromTombstone ==
    \A c \in RepoCalls :
        (c.op \in {"purgeGallery", "purgePost"}
            /\ TargetPresent(c) /\ ~TargetTombstoned(c)) =>
                /\ ~c.r.ret
                /\ IF c.op = "purgeGallery"
                   THEN <<c.owner, c.id>> \in GalleryKeys(c.r.doc)
                   ELSE <<c.owner, c.id>> \in PostKeys(c.r.doc)

\* C23: createComment(author, postId, text) by a caller who may manage the
\* author's partition succeeds exactly when some partition holds a post with
\* that id that is not tombstoned.  On success the one new comment is in the
\* author's partition, alive, and carries that postId; every other comment is
\* as before.  When the post is absent or tombstoned the call fails, saves
\* nothing and no partition gains a comment.
C23_CreateComment ==
    \A a \in KnownIds, p \in PostIds \cup {NoId, nextId.p}, t \in CommentInputs :
        LET r == createComment(state, Session, a, p, t, nextId.c, now)
            usable == \E bq \in PostKeys(state) :
                          bq[2] = p /\ ~Tombstoned(PostAt(state, bq))
            new == <<a, nextId.c>>
        IN  /\ r.ret => usable
            /\ r.ret <=> (Permitted(a) /\ usable)
            /\ r.ret =>
                  /\ new \notin CommentKeys(state)
                  /\ CommentKeys(r.doc) = CommentKeys(state) \cup {new}
                  /\ \A ac \in CommentKeys(state) : CommentAt(r.doc, ac) = CommentAt(state, ac)
                  /\ CommentAt(r.doc, new).postId = p
                  /\ CommentAt(r.doc, new).deletedAt = NoTime
                  /\ PostKeys(r.doc) = PostKeys(state)
                  /\ \A bq \in PostKeys(state) : PostAt(r.doc, bq) = PostAt(state, bq)
            /\ ~usable =>
                  /\ ~r.ret /\ ~r.saved
                  /\ CommentKeys(r.doc) = CommentKeys(state)
                  /\ \A ac \in CommentKeys(state) : CommentAt(r.doc, ac) = CommentAt(state, ac)

\* A signed-in user's createComment as themselves has just been refused with
\* the invalid-post notice while every post id handed out is a tombstoned post:
\* the post named was tombstoned, and no comment exists.
C23_Witness ==
    /\ last.op = "createComment" /\ ~last.ret /\ last.notice = "invalidPost"
    /\ Session # NoUser
    /\ PostIds # {}
    /\ \A p \in PostIds :
          \E bq \in PostKeys(state) : bq[2] = p /\ Tombstoned(PostAt(state, bq))
    /\ CommentKeys(state) = {}

\* Every gallery, post and comment of the document, by partition and id
Records(doc) ==
    [galleries |-> [og \in GalleryKeys(doc) |-> GalleryAt(doc, og)],
     posts |-> [ap \in PostKeys(doc) |-> PostAt(doc, ap)],
     comments |-> [ac \in CommentKeys(doc) |-> CommentAt(doc, ac)]]

UpdateOps == {"updateGallery", "updatePost", "updateComment"}

\* What a user wrote into a gallery, a post, a comment
GalleryContent(g) == <<g.title, g.desc, g.icon, g.color, g.pinned>>
PostContent(p) == <<p.title, p.content>>
CommentContent(c) == <<c.text>>

\* C24: updateGallery, updatePost and updateComment by a permitted caller fail
\* when the named partition does not hold the target or the target is
\* tombstoned, save nothing and leave every gallery, post and comment, the
\* target's updatedAt included, as it was; and no repository call changes the
\* content of a gallery, post or comment that is tombstoned before and after
\* the call.
C24_UpdateNeedsAliveTarget ==
    \A c \in RepoCalls :
        /\ (c.op \in UpdateOps /\ Permitted(c.owner)
               /\ (~TargetPresent(c) \/ TargetTombstoned(c))) =>
              /\ ~c.r.ret /\ ~c.r.saved
              /\ Records(c.r.doc) = Records(state)
        /\ \A og \in GalleryKeys(state) \cap GalleryKeys(c.r.doc) :
              (Tombstoned(GalleryAt(state, og)) /\ Tombstoned(GalleryAt(c.r.doc, og))) =>
                  GalleryContent(GalleryAt(c.r.doc, og)) = GalleryContent(GalleryAt(state, og))
        /\ \A ap \in PostKeys(state) \cap PostKeys(c.r.doc) :
              (Tombstoned(PostAt(state, ap)) /\ Tombstoned(PostAt(c.r.doc, ap))) =>
                  PostContent(PostAt(c.r.doc, ap)) = PostContent(PostAt(state, ap))
        /\ \A ac \in CommentKeys(state) \cap CommentKeys(c.r.doc) :
              (Tombstoned(CommentAt(state, ac)) /\ Tombstoned(CommentAt(c.r.doc, ac))) =>
                  CommentContent(CommentAt(c.r.doc, ac)) = CommentContent(CommentAt(state, ac))

\* A user who is no administrator has just had an updatePost on their own
\* partition fail, and every post id handed out is a tombstoned post of that
\* partition: the post named was tombstoned and keeps the updatedAt its
\* deletion gave it.
C24_Witness ==
    /\ last.op = "updatePost" /\ ~last.ret /\ last.notice = NoNotice
    /\ Session # NoUser /\ ~SessionIsAdmin
    /\ PostIds # {}
    /\ \A p \in PostIds :
          /\ <<Session, p>> \in PostKeys(state)
          /\ Tombstoned(PostAt(state, <<Session, p>>))
          /\ PostAt(state, <<Session, p>>).updatedAt = PostAt(state, <<Session, p>>).deletedAt

\* Record `new` is record `old` but for the fields the patch names and updatedAt
PatchedOnly(old, new, patch) ==
    /\ DOMAIN new = DOMAIN old
    /\ \A f \in DOMAIN old \ (DOMAIN patch \cup {"updatedAt"}) : new[f] = old[f]

\* C25: a successful updateGallery / updatePost / updateComment changes, in its
\* target, only the fields the patch supplies and updatedAt: every field the
\* patch leaves out keeps its value, and id, createdAt, deletedAt, the parent
\* reference (galleryOwnerId, galleryId, postId) and deletedByGallery are as
\* before; every other gallery, post and comment, every partition's settings
\* and the accounts are unchanged.
C25_UpdateTouchesPatchOnly ==
    /\ \A o \in KnownIds, g \in GalleryIds, d \in GalleryPatches :
          LET r == updateGallery(state, Session, o, g, d, now)
              old == GalleryAt(state, <<o, g>>)
              new == GalleryAt(r.doc, <<o, g>>)
          IN  r.ret =>
                /\ PatchedOnly(old, new, d)
                /\ <<new.id, new.createdAt, new.deletedAt>> =
                      <<old.id, old.createdAt, old.deletedAt>>
                /\ r.doc = SetGallery(state, o, g, new)
    /\ \A a \in KnownIds, p \in PostIds, d \in PostPatches :
          LET r == updatePost(state, Session, a, p, d, now)
              old == PostAt(state, <<a, p>>)
              new == PostAt(r.doc, <<a, p>>)
          IN  r.ret =>
                /\ PatchedOnly(old, new, d)
                /\ <<new.id, new.createdAt, new.deletedAt, new.galleryOwnerId,
                     new.galleryId, new.deletedByGallery>> =
                      <<old.id, old.createdAt, old.deletedAt, old.galleryOwnerId,
                        old.galleryId, old.deletedByGallery>>
                /\ r.doc = SetPost(state, a, p, new)
    /\ \A a \in KnownIds, c \in CommentIds, d \in CommentPatches :
          LET r == updateComment(state, Session, a, c, d, now)
              old == CommentAt(state, <<a, c>>)
              new == CommentAt(r.doc, <<a, c>>)
          IN  r.ret =>
                /\ PatchedOnly(old, new, d)
                /\ <<new.id, new.createdAt, new.deletedAt, new.postId>> =
                      <<old.id, old.createdAt, old.deletedAt, old.postId>>
                /\ r.doc = SetComment(state, a, c, new)

\* An updateGallery whose patch named pinned and color but no title has just
\* succeeded: the gallery is pinned, carries the colour the patch normalised
\* to, a later updatedAt, and the title it was created with.
C25_Witness ==
    /\ last.op = "updateGallery" /\ last.ret
    /\ <<last.owner, last.id>> \in GalleryKeys(state)
    /\ LET g == GalleryAt(state, <<last.owner, last.id>>)
       IN  /\ g.pinned = TRUE
           /\ g.color = DefaultColor
           /\ g.title = <<"A">>
           /\ g.createdAt < g.updatedAt

DeleteOps == {"deleteGallery", "deletePost", "deleteComment"}
RestoreOps == {"restoreGallery", "restorePost"}

\* The lifecycle step `op` on (owner, id), made on document doc at instant t
LifecycleStep(op, doc, owner, id, t) ==
    CASE op = "deleteGallery"  -> deleteGallerySoft(doc, Session, owner, id, t)
      [] op = "deletePost"     -> deletePostSoft(doc, Session, owner, id, t)
      [] op = "deleteComment"  -> deleteCommentSoft(doc, Session, owner, id, t)
      [] op = "restoreGallery" -> restoreGallery(doc, Session, owner, id, t)
      [] op = "restorePost"    -> restorePost(doc, Session, owner, id, t)

\* C26: deleteGallery, deletePost or deleteComment on an entity that is already
\* tombstoned fails and leaves the document as it was (the first deletedAt is
\* kept, no cascade runs); restoreGallery or restorePost on an entity that is
\* not tombstoned fails and leaves the document as it was; so a delete or
\* restore that succeeded, made a second time, does nothing.
C26_RepeatedStepFails ==
    \A c \in RepoCalls :
        /\ (c.op \in DeleteOps /\ TargetPresent(c) /\ TargetTombstoned(c)) =>
              ~c.r.ret /\ ~c.r.saved /\ c.r.doc = state
        /\ (c.op \in RestoreOps /\ TargetPresent(c) /\ ~TargetTombstoned(c)) =>
              ~c.r.ret /\ ~c.r.saved /\ c.r.doc = state
        /\ (c.op \in DeleteOps \cup RestoreOps /\ c.r.ret) =>
              LET again == LifecycleStep(c.op, c.r.doc, c.owner, c.id, now + 1)
              IN  ~again.ret /\ ~again.saved /\ again.doc = c.r.doc

\* A user who is no administrator has just had a deleteGallery on their own
\* partition fail while every gallery id handed out is a tombstoned gallery of
\* that partition holding a post the first deletion tombstoned: the second
\* deletion left the gallery's and the post's deletedAt where they were.
C26_Witness ==
    /\ last.op = "deleteGallery" /\ ~last.ret /\ last.notice = NoNotice
    /\ Session # NoUser /\ ~SessionIsAdmin
    /\ GalleryIds # {}
    /\ \A g \in GalleryIds :
          /\ <<Session, g>> \in GalleryKeys(state)
          /\ Tombstoned(GalleryAt(state, <<Session, g>>))
          /\ \E ap \in PostKeys(state) :
                /\ Under(state, ap, Session, g)
                /\ PostAt(state, ap).deletedByGallery
                /\ PostAt(state, ap).deletedAt = GalleryAt(state, <<Session, g>>).deletedAt
    /\ stored = state

\* Usernames at the edges of the shape rule: empty, 1, 2, 20 and 21 characters,
\* and whitespace inside
ShapeProbes ==
    {<<>>, <<"x">>, <<"x", "y">>, [i \in 1..20 |-> "z"], [i \in 1..21 |-> "z"],
     <<"a", " ", "b">>, <<" ", " ">>}

\* The document with username u indexed as well, whatever u looks like
IndexedAlso(doc, u) == [doc EXCEPT !.usernameIndex = Put(@, u, 1)]

\* C27: signup tests the username's shape (2 to 20 characters, no whitespace)
\* before its uniqueness: an ill-shaped username is refused as ill-shaped, also
\* when the index holds it; a well-shaped username that an account carries is
\* refused as already existing; and a signup that fails leaves users,
\* usernameIndex and userData, in memory and stored, as they were, so every
\* existing account keeps its id, salt and hash.
C27_SignupChecks ==
    [][/\ \A u \in AuthNames \cup ShapeProbes :
             /\ isValidUsername(u) <=>
                   (Len(u) >= 2 /\ Len(u) <= 20 /\ \A i \in 1..Len(u) : u[i] # " ")
             /\ ~isValidUsername(u) =>
                   /\ signupCheck(state, u) = "signup:badShape"
                   /\ signupCheck(IndexedAlso(state, u), u) = "signup:badShape"
             /\ (isValidUsername(u) /\ ~Unregistered(state, u)) =>
                   signupCheck(state, u) = "signup:exists"
       /\ (last'.op = "signup" /\ ~last'.ret) =>
             /\ last'.notice \in {"signup:badShape", "signup:exists"}
             /\ state' = state /\ stored' = stored
             /\ pending' = pending /\ nextId' = nextId]_vars

\* A signup with an ill-shaped username has just been refused while the
\* accounts admin and al exist.
C27_Witness ==
    /\ last.op = "signup" /\ ~last.ret /\ last.notice = "signup:badShape"
    /\ \E i, j \in DOMAIN state.users :
          state.users[i].username = ADMIN_NAME /\ state.users[j].username = AL

\* The hints a caller can pass: none, a known id, or an id nobody has
Hints == KnownIds \cup {NoUser, nextId.u}

\* C28: what resolveGalleryCtx(id, hint) and resolvePostCtx(id, hint) return
\* does not depend on the hint.  For every id and every hint (right, wrong, of
\* no partition, or none) the result is "not found" exactly when no partition
\* holds the id; otherwise it names the one partition that holds the record and
\* gives that record.
C28_ResolveIgnoresHint ==
    \A h \in Hints :
        /\ \A g \in GalleryIds \cup {NoId, nextId.g} :
              LET r == resolveGalleryCtx(state, g, h)
                  holders == {o \in DOMAIN state.userData : <<o, g>> \in GalleryKeys(state)}
              IN  /\ Cardinality(holders) <= 1
                  /\ r.found <=> holders # {}
                  /\ ~r.found => r.ownerId = NoUser
                  /\ r.found =>
                        /\ holders = {r.ownerId}
                        /\ Galleries(r.doc, r.ownerId)[g] = GalleryAt(state, <<r.ownerId, g>>)
        /\ \A p \in PostIds \cup {NoId, nextId.p} :
              LET r == resolvePostCtx(state, p, h)
                  holders == {a \in DOMAIN state.userData : <<a, p>> \in PostKeys(state)}
              IN  /\ Cardinality(holders) <= 1
                  /\ r.found <=> holders # {}
                  /\ ~r.found => r.ownerId = NoUser
                  /\ r.found =>
                        /\ holders = {r.ownerId}
                        /\ Posts(r.doc, r.ownerId)[p] = PostAt(state, <<r.ownerId, p>>)

\* A post has just been created in a gallery of another partition, and a hint
\* naming a third partition resolves the gallery to its owner and the post to
\* its author.
C28_Witness ==
    /\ last.op = "createPost" /\ last.ret
    /\ <<last.owner, last.id>> \in PostKeys(state)
    /\ LET ap == <<last.owner, last.id>>
           og == GalleryOf(state, ap)
       IN  /\ og \in GalleryKeys(state)
           /\ og[1] # ap[1]
           /\ \E h \in KnownIds \ {og[1], ap[1]} :
                 /\ resolveGalleryCtx(state, og[2], h).found
                 /\ resolveGalleryCtx(state, og[2], h).ownerId = og[1]
                 /\ resolvePostCtx(state, ap[2], h).found
                 /\ resolvePostCtx(state, ap[2], h).ownerId = ap[1]

\* C29: after every command the persisted document equals the in-memory
\* document.
C29_StoredIsState == stored = state

\* What identifies an account: its id, username, salt and derived hash
UserIdentity(u) == <<u.userId, u.username, u.saltB64, u.hashB64>>

\* The names of the content and lifecycle calls
ContentOps == {"createGallery", "createPost", "createComment"} \cup TargetOps

\* C30: no step (signup of another name, login, logout, page load with its
\* bootstrap, content or lifecycle call) changes the id, username, salt or
\* derived hash of a user that is registered before and after it, and every
\* user is filed under its own id; a content or lifecycle call, failed ones
\* included, leaves users and usernameIndex as they were.
C30_AccountsKept ==
    [][/\ \A u \in DOMAIN state.users \cap DOMAIN state'.users :
              /\ UserIdentity(state'.users[u]) = UserIdentity(state.users[u])
              /\ state'.users[u].userId = u
       /\ last'.op \in ContentOps =>
              /\ state'.users = state.users
              /\ state'.usernameIndex = state.usernameIndex]_vars

\* The administrator registered first; since then bo has signed up, a page load
\* has run the bootstrap (the demo account is gone), somebody has logged in and
\* created a gallery, and the administrator's record is what it was.
C30_Witness ==
    /\ last.op = "createGallery" /\ last.ret
    /\ \E u \in DOMAIN state.users : state.users[u].username = BO
    /\ usernameIndexGet(state, DEMO_NAME) = NoUser
    /\ usernameIndexGet(state, ADMIN_NAME) \in DOMAIN state.users
    /\ UserIdentity(state.users[usernameIndexGet(state, ADMIN_NAME)])
         = UserIdentity(DemoDoc.users[usernameIndexGet(DemoDoc, ADMIN_NAME)])

\* The posts of every partition filed under gallery g of owner o
PostsUnder(doc, o, g) == {ap \in PostKeys(doc) : GalleryOf(doc, ap) = <<o, g>>}

\* The later of a post's two timestamps
LaterStamp(p) == IF p.updatedAt > p.createdAt THEN p.updatedAt ELSE p.createdAt

\* C31: for every owner o and gallery id g (present, purged or never created),
\* computeGalleryMeta(o, g) counts as alive exactly the non-tombstoned posts of
\* all partitions filed under (o, g) and as trashed exactly the tombstoned
\* ones, so the two counts sum to the number of posts under (o, g); its latest
\* activity is the greatest of the alive posts' timestamps, and is null exactly
\* when no post under (o, g) is alive.
C31_GalleryMeta ==
    \A o \in KnownIds, g \in GalleryIds \cup {nextId.g} :
        LET meta == computeGalleryMeta(state, o, g)
            under == PostsUnder(state, o, g)
            alive == {ap \in under : ~Tombstoned(PostAt(state, ap))}
        IN  /\ meta.postCount = Cardinality(alive)
            /\ meta.trashedCount = Cardinality(under \ alive)
            /\ meta.postCount + meta.trashedCount = Cardinality(under)
            /\ (meta.latestAt = NoTime) <=> (alive = {})
            /\ alive # {} =>
                  /\ \E ap \in alive : meta.latestAt = LaterStamp(PostAt(state, ap))
                  /\ \A ap \in alive : meta.latestAt >= LaterStamp(PostAt(state, ap))

\* A post has just been deleted in a gallery that holds an alive post of
\* another partition, touched earlier than the deletion: the meta counts one
\* alive and one trashed post and dates the gallery by the alive one.
C31_Witness ==
    /\ last.op = "deletePost" /\ last.ret
    /\ <<last.owner, last.id>> \in PostKeys(state)
    /\ LET og == GalleryOf(state, <<last.owner, last.id>>)
           meta == computeGalleryMeta(state, og[1], og[2])
       IN  /\ meta.postCount = 1 /\ meta.trashedCount = 1
           /\ \E ap \in PostsUnder(state, og[1], og[2]) :
                 /\ ap[1] # last.owner
                 /\ ~Tombstoned(PostAt(state, ap))
                 /\ meta.latestAt = PostAt(state, ap).updatedAt
                 /\ meta.latestAt < PostAt(state, <<last.owner, last.id>>).updatedAt

\* The gallery a post is filed under is present in the partition the post names
GalleryPresent(doc, og) ==
    og[1] \in DOMAIN doc.userData /\ og[2] \in DOMAIN Galleries(doc, og[1])

\* C32: in every state reached through the repository operations, every post
\* that is not tombstoned references a gallery that is present in the partition
\* named by the post's galleryOwnerId and is not tombstoned.
C32_AlivePostHasAliveGallery ==
    \A ap \in PostKeys(state) :
        ~Tombstoned(PostAt(state, ap)) =>
            /\ GalleryPresent(state, GalleryOf(state, ap))
            /\ ~Tombstoned(GalleryAt(state, GalleryOf(state, ap)))

\* A gallery has just been restored, and a post another user wrote under it,
\* tombstoned by the gallery's deletion, is alive again under the alive gallery.
C32_Witness ==
    /\ last.op = "restoreGallery" /\ last.ret
    /\ GalleryPresent(state, <<last.owner, last.id>>)
    /\ ~Tombstoned(GalleryAt(state, <<last.owner, last.id>>))
    /\ \E ap \in PostsUnder(state, last.owner, last.id) :
          /\ ap[1] # last.owner
          /\ ~Tombstoned(PostAt(state, ap))
          /\ PostAt(state, ap).updatedAt > PostAt(state, ap).createdAt

\* C33: in every state reached through the repository operations and the
\* bootstrap, every comment, tombstoned or not, names a post that is present in
\* some partition, and every post references a gallery that is present in some
\* partition.
C33_NoOrphans ==
    /\ \A ac \in CommentKeys(state) :
          \E ap \in PostKeys(state) : ap[2] = CommentAt(state, ac).postId
    /\ \A ap \in PostKeys(state) :
          \E og \in GalleryKeys(state) : og[2] = PostAt(state, ap).galleryId

\* C34: in every reachable state a post with deletedByGallery = TRUE is filed
\* under a gallery that is present and tombstoned; so no post of a gallery that
\* is not tombstoned carries the flag.
C34_FlaggedPostHasTrashedGallery ==
    \A ap \in PostKeys(state) :
        PostAt(state, ap).deletedByGallery =>
            /\ GalleryPresent(state, GalleryOf(state, ap))
            /\ Tombstoned(GalleryAt(state, GalleryOf(state, ap)))

\* C35: every key of userData is the id of a registered user; no operation, a
\* failed one or a resolution with a wrong owner hint included, creates a
\* partition for an id that is not registered.
C35_PartitionsOfUsers ==
    /\ DOMAIN state.userData \subseteq DOMAIN state.users
    /\ DOMAIN stored.userData \subseteq DOMAIN stored.users

\* C36: an account created through signup never holds role admin: in every
\* step, an account that holds role admin after it either held the role before
\* or is the account the bootstrap provisions in that step.
C36_AdminOnlyByBootstrap ==
    [][\A u \in DOMAIN state'.users :
          state'.users[u].role = "admin" =>
              \/ u \in DOMAIN state.users /\ state.users[u].role = "admin"
              \/ last'.op = "bootstrap" /\ last'.owner = u]_vars

\* The calls that tombstone or revive a gallery or a post, and the calls that purge
SoftOps == {"deleteGallery", "restoreGallery", "deletePost", "restorePost"}
PurgeOps == {"purgeGallery", "purgePost"}

\* Comment ac, tombstoned in document old, is in document new exactly as it was
CommentKept(old, new, ac) ==
    ac \in CommentKeys(new) /\ CommentAt(new, ac) = CommentAt(old, ac)

\* C37: deleteGallery, restoreGallery, deletePost and restorePost, succeeding or
\* failing, leave every comment of every partition as it was; and a tombstoned
\* comment is never alive again: whatever call is made next, and whatever step
\* the program takes next, the comment is afterwards either exactly as it was
\* or gone, and it is gone only by a successful purgePost or purgeGallery.
C37_TombstonedCommentStays ==
    /\ [](\A c \in RepoCalls :
            /\ c.op \in SoftOps =>
                  \A a \in DOMAIN state.userData :
                      Comments(c.r.doc, a) = Comments(state, a)
            /\ \A ac \in CommentKeys(state) :
                  Tombstoned(CommentAt(state, ac)) =>
                      \/ CommentKept(state, c.r.doc, ac)
                      \/ /\ ac \notin CommentKeys(c.r.doc)
                         /\ c.op \in PurgeOps /\ c.r.ret)
    /\ [][\A ac \in CommentKeys(state) :
              Tombstoned(CommentAt(state, ac)) =>
                  \/ CommentKept(state, state', ac)
                  \/ /\ ac \notin CommentKeys(state')
                     /\ last'.op \in PurgeOps /\ last'.ret]_vars

\* C38: a registered account stays registered, with its partition, through
\* every step; no operation and no startup step removes a user, and what a
\* partition holds leaves it only by a successful purge.
C38_AccountsRemain ==
    [][\A u \in DOMAIN state.users :
          /\ u \in DOMAIN state'.users
          /\ u \in DOMAIN state.userData =>
                /\ u \in DOMAIN state'.userData
                /\ \/ last'.op \in PurgeOps /\ last'.ret
                   \/ /\ DOMAIN Galleries(state, u) \subseteq DOMAIN Galleries(state', u)
                      /\ DOMAIN Posts(state, u) \subseteq DOMAIN Posts(state', u)
                      /\ DOMAIN Comments(state, u) \subseteq DOMAIN Comments(state', u)]_vars

====
